---- MODULE Spec2Model ----
(***************************************************************************)
(* Use-case execution pipeline of the layered user application:            *)
(* RegisterUser, LoginUser, DeleteUser, GetUserProfile and ListAllUsers    *)
(* running against the user repository.                                    *)
(*                                                                         *)
(* Composition modelled.  The use cases are the classes under              *)
(* src/src/domain/use-cases (LoginUser: the DTO revision, lines 124-217).  *)
(* They are typed against IUserRepository; every repository method is      *)
(* taken from the UserRepository implementation whose signature matches    *)
(* that interface (create/find*: lines 12-76 and 166-330; delete,          *)
(* createAuthentication, deleteAuthentication: lines 499-527, 610-660 and  *)
(* 711-730).  The boundary invokes a use case directly                     *)
(* (RouteUtils.routeToUseCase line 97), so every repository write is       *)
(* visible as soon as the repository method returns.                       *)
(*                                                                         *)
(* Strings are sequences of one-character strings, so that lower-casing,   *)
(* trimming, length checks and the regular expressions are computed.       *)
(* User rows keep id, email, isActive and isAdmin; the names are validated *)
(* but not stored in the modelled rows.                                    *)
(***************************************************************************)
EXTENDS Integers, Sequences, FiniteSets, TLC

(***************************************************************************)
(* Strings                                                                 *)
(***************************************************************************)

\* The JavaScript value undefined (a field that is absent from the object).
Undefined == <<"<undefined>">>

\* A string of n copies of the character c.
Rep(c, n) == [i \in 1..n |-> c]

UpperChars == {"A", "B", "P", "X"}
LowerChars == {"a", "b", "c", "d", "p", "r", "s", "w", "x"}
DigitChars == {"0", "1"}

\* String.prototype.toLowerCase on one character.
LowerChar(c) ==
  CASE c = "A" -> "a"
    [] c = "B" -> "b"
    [] c = "P" -> "p"
    [] c = "X" -> "x"
    [] c = "E" -> "e"
    [] c = "G" -> "g"
    [] OTHER -> c

ToLowerCase(s) == [i \in 1..Len(s) |-> LowerChar(s[i])]

\* !value for a string-or-undefined value.
Falsy(s) == s = Undefined \/ s = <<>>

\* value.trim().length === 0
TrimIsEmpty(s) == \A i \in 1..Len(s) : s[i] = " "

\* /^[^\s@]+@[^\s@]+\.[^\s@]+$/.test(s)
MatchesEmailRegex(s) ==
  \E i \in 1..Len(s) : \E j \in 1..Len(s) :
     /\ s[i] = "@"
     /\ s[j] = "."
     /\ 1 < i
     /\ i + 1 < j
     /\ j < Len(s)
     /\ \A k \in 1..Len(s) : s[k] # " " /\ (k # i => s[k] # "@")

HasUpper(s) == \E i \in 1..Len(s) : s[i] \in UpperChars
HasLower(s) == \E i \in 1..Len(s) : s[i] \in LowerChars
HasDigit(s) == \E i \in 1..Len(s) : s[i] \in DigitChars

(***************************************************************************)
(* Program constants                                                       *)
(***************************************************************************)
MaxEmailLen     == 255
MaxNameLen      == 100
MinPasswordLen  == 8
MaxPasswordLen  == 128
MinHashLen      == 10
MaxProviderLen  == 50
MaxProviderIdLen == 255
MaxLoginEmailLen == 320
MaxPageSize     == 500
DefaultPage     == 1
DefaultPageSize == 20
\* Length of a bcrypt hash string: "$2a$", two cost digits, "$", 22 salt
\* characters and 31 digest characters.
BcryptHashLen   == 4 + 2 + 1 + 22 + 31

(***************************************************************************)
(* Validation primitives and errors                                        *)
(***************************************************************************)

\* new ValidationError(field, message)
ValidationError(f, m) == [field |-> f, message |-> m]

Fields(errors) == {errors[i].field : i \in 1..Len(errors)}

\* The absent id / userId (undefined or null).
NoId == "<none>"

\* bcrypt.hash(password, 12): the hash determines the password it was made of
\* and is BcryptHashLen characters long.
Hash(p) == [salted |-> p, len |-> BcryptHashLen]

\* hashedPassword = null
NullHash == [salted |-> Undefined, len |-> 0]

\* bcrypt.compare(password, hashedPassword)
Compare(p, h) == h # NullHash /\ h.salted = p

\* The user DTO carried by a response, and its absence.
NoDto == [id |-> NoId, email |-> Undefined, isActive |-> FALSE, isAdmin |-> FALSE]

UserDto(id, row) ==
  [id |-> id, email |-> row.email, isActive |-> row.isActive, isAdmin |-> row.isAdmin]

\* Page metadata whose page count rounds down.
PaginationMetaRoundsDown(total, page, pageSize) ==
  LET totalPages == total \div pageSize
  IN [total |-> total, page |-> page, pageSize |-> pageSize,
      totalPages |-> totalPages, hasNext |-> page < totalPages,
      hasPrev |-> page > 1]

\* new PaginationMeta(total, page, pageSize); totalPages is
\* Math.ceil(total / pageSize), pageSize being at least 1 here.
PaginationMeta(total, page, pageSize) ==
  LET totalPages == (total + pageSize - 1) \div pageSize
  IN [total |-> total, page |-> page, pageSize |-> pageSize,
      totalPages |-> totalPages, hasNext |-> page < totalPages,
      hasPrev |-> page > 1]

NoMeta ==
  [total |-> 0, page |-> 0, pageSize |-> 0, totalPages |-> 0,
   hasNext |-> FALSE, hasPrev |-> FALSE]

\* What a use-case invocation ends with: kind is "ok" or the class of the
\* raised error.
Ok(message, dto) ==
  [kind |-> "ok", message |-> message, fieldErrors |-> <<>>, user |-> dto,
   count |-> 0, meta |-> NoMeta]

OkPage(count, meta) ==
  [kind |-> "ok", message |-> "", fieldErrors |-> <<>>, user |-> NoDto,
   count |-> count, meta |-> meta]

Raise(kind, message) ==
  [kind |-> kind, message |-> message, fieldErrors |-> <<>>, user |-> NoDto,
   count |-> 0, meta |-> NoMeta]

RaiseValidation(message, errors) ==
  [kind |-> "ValidationDomainError", message |-> message,
   fieldErrors |-> errors, user |-> NoDto, count |-> 0, meta |-> NoMeta]

\* throw new Error(JSON.stringify(errors)): a plain Error whose message is the
\* JSON text of the field errors.
RaiseJson(errors) ==
  [kind |-> "Error", message |-> "JSON.stringify(fieldErrors)",
   fieldErrors |-> errors, user |-> NoDto, count |-> 0, meta |-> NoMeta]

Pending ==
  [kind |-> "pending", message |-> "", fieldErrors |-> <<>>, user |-> NoDto,
   count |-> 0, meta |-> NoMeta]

(***************************************************************************)
(* Errors at the boundary (DomainErrors, ErrorHandler)                     *)
(***************************************************************************)
DomainErrorCodes ==
  {"VALIDATION", "AUTHENTICATION", "AUTHORIZATION", "NOT_FOUND", "CONFLICT", "SYSTEM"}

\* The classes that extend DomainError, and the code each constructor sets.
DomainErrorClasses ==
  {"ValidationDomainError", "AuthenticationDomainError", "AuthorizationDomainError",
   "NotFoundDomainError", "ConflictDomainError", "SystemError"}

CodeOfClass(kind) ==
  CASE kind = "ValidationDomainError"    -> "VALIDATION"
    [] kind = "AuthenticationDomainError" -> "AUTHENTICATION"
    [] kind = "AuthorizationDomainError"  -> "AUTHORIZATION"
    [] kind = "NotFoundDomainError"       -> "NOT_FOUND"
    [] kind = "ConflictDomainError"       -> "CONFLICT"
    [] kind = "SystemError"               -> "SYSTEM"

\* An absent code, and absent details.
NoCode == "<undefined>"
NoDetails == "<undefined>"

\* A thrown value: an instance of a DomainError class, a DomainError built
\* directly with a code, or any other Error (it has no code).
DomainErrorOf(kind, message, fieldErrors) ==
  [kind |-> kind, code |-> CodeOfClass(kind), message |-> message,
   fieldErrors |-> fieldErrors, details |-> NoDetails]

BaseDomainError(code, message) ==
  [kind |-> "DomainError", code |-> code, message |-> message,
   fieldErrors |-> <<>>, details |-> NoDetails]

PlainError(kind, message) ==
  [kind |-> kind, code |-> NoCode, message |-> message,
   fieldErrors |-> <<>>, details |-> NoDetails]

NoError == PlainError("none", "")

\* error instanceof DomainError
InstanceOfDomainError(error) == error.kind \in DomainErrorClasses \cup {"DomainError"}

\* A status mapping that answers 403 for NOT_FOUND.
mapNotFoundToForbidden(code) ==
  CASE code = "VALIDATION"     -> 400
    [] code = "AUTHENTICATION" -> 401
    [] code = "AUTHORIZATION"  -> 403
    [] code = "NOT_FOUND"      -> 403
    [] code = "CONFLICT"       -> 409
    [] OTHER                   -> 500

\* ErrorHandler.mapDomainErrorToStatusCode
mapDomainErrorToStatusCode(code) ==
  CASE code = "VALIDATION"     -> 400
    [] code = "AUTHENTICATION" -> 401
    [] code = "AUTHORIZATION"  -> 403
    [] code = "NOT_FOUND"      -> 404
    [] code = "CONFLICT"       -> 409
    [] OTHER                   -> 500

\* The JSON body and status of an error response; fieldErrors is a key of
\* the body only if hasFieldErrors.
Response(status, error, code, details, hasFieldErrors, fieldErrors) ==
  [status |-> status, error |-> error, code |-> code, details |-> details,
   hasFieldErrors |-> hasFieldErrors, fieldErrors |-> fieldErrors]

NoResponse == Response(0, "", NoCode, NoDetails, FALSE, <<>>)

\* ErrorHandler.createErrorResponse, with the status handle gives it.
createErrorResponse(status, error) ==
  Response(status, error.message, error.code, error.details,
           error.kind = "ValidationDomainError",
           IF error.kind = "ValidationDomainError" THEN error.fieldErrors ELSE <<>>)

\* process.env.NODE_ENV
NodeEnvs == {"development", "production"}

\* ErrorHandler.handle
handle(error, nodeEnv) ==
  IF InstanceOfDomainError(error)
    THEN createErrorResponse(mapDomainErrorToStatusCode(error.code), error)
    ELSE Response(500, "Internal server error", "INTERNAL_ERROR",
                  IF nodeEnv = "development" THEN error.message ELSE NoDetails,
                  FALSE, <<>>)

(***************************************************************************)
(* Entities                                                                *)
(***************************************************************************)

\* An id check that asks for a well-formed id only when one is provided.
hasValidIdWhenProvided(id) == id # ""

\* Entity.hasValidId
hasValidId(id) == id # NoId /\ id # ""

\* User.validate.  A user entity is [id, email, firstName, lastName,
\* isActive, isAdmin]; isActive and isAdmin are booleans by construction.
UserValidate(u) ==
  (IF ~hasValidId(u.id)
     THEN <<ValidationError("id", "ID is required and must be a non-empty string")>>
     ELSE <<>>)
  \o
  (IF Falsy(u.email)
     THEN <<ValidationError("email", "Email is required")>>
     ELSE (IF Len(u.email) > MaxEmailLen
             THEN <<ValidationError("email", "Email must not exceed 255 characters")>>
             ELSE <<>>)
          \o
          (IF ~MatchesEmailRegex(u.email)
             THEN <<ValidationError("email", "Email format is invalid")>>
             ELSE <<>>))
  \o
  (IF Falsy(u.firstName)
     THEN <<ValidationError("firstName", "First name is required")>>
     ELSE IF Len(u.firstName) > MaxNameLen
       THEN <<ValidationError("firstName", "First name must not exceed 100 characters")>>
       ELSE IF TrimIsEmpty(u.firstName)
         THEN <<ValidationError("firstName", "First name cannot be empty")>>
         ELSE <<>>)
  \o
  (IF Falsy(u.lastName)
     THEN <<ValidationError("lastName", "Last name is required")>>
     ELSE IF Len(u.lastName) > MaxNameLen
       THEN <<ValidationError("lastName", "Last name must not exceed 100 characters")>>
       ELSE IF TrimIsEmpty(u.lastName)
         THEN <<ValidationError("lastName", "Last name cannot be empty")>>
         ELSE <<>>)

\* UserAuthentication._isValidProvider
ValidProviders ==
  { <<"e","m","a","i","l">>, <<"g","o","o","g","l","e">>,
    <<"g","i","t","h","u","b">>, <<"f","a","c","e","b","o","o","k">>,
    <<"a","p","p","l","e">>, <<"m","i","c","r","o","s","o","f","t">> }

EmailProvider == <<"e","m","a","i","l">>
GoogleProvider == <<"g","o","o","g","l","e">>

isValidProvider(provider) == ToLowerCase(provider) \in ValidProviders

\* UserAuthentication.validate.  An authentication entity is
\* [id, userId, provider, providerId, hashedPassword]; isActive is a boolean
\* by construction.
UserAuthenticationValidate(a) ==
  (IF a.id # NoId /\ ~hasValidId(a.id)
     THEN <<ValidationError("id", "ID must be a non-empty string when provided")>>
     ELSE <<>>)
  \o
  (IF a.userId = NoId \/ a.userId = ""
     THEN <<ValidationError("userId", "User ID is required (weak entity constraint)")>>
     ELSE <<>>)
  \o
  (IF Falsy(a.provider)
     THEN <<ValidationError("provider", "Provider is required")>>
     ELSE (IF Len(a.provider) > MaxProviderLen
             THEN <<ValidationError("provider", "Provider must not exceed 50 characters")>>
             ELSE <<>>)
          \o
          (IF ~isValidProvider(a.provider)
             THEN <<ValidationError("provider", "Provider must be one of: email, google, github, facebook")>>
             ELSE <<>>))
  \o
  (IF Falsy(a.providerId)
     THEN <<ValidationError("providerId", "Provider ID is required")>>
     ELSE IF Len(a.providerId) > MaxProviderIdLen
       THEN <<ValidationError("providerId", "Provider ID must not exceed 255 characters")>>
       ELSE <<>>)
  \o
  (IF a.provider = EmailProvider
     THEN IF a.hashedPassword = NullHash
            THEN <<ValidationError("hashedPassword", "Hashed password is required for email provider")>>
            ELSE IF a.hashedPassword.len < MinHashLen
              THEN <<ValidationError("hashedPassword", "Hashed password appears to be invalid")>>
              ELSE <<>>
     ELSE IF a.hashedPassword # NullHash
            THEN <<ValidationError("hashedPassword", "Hashed password should be null for non-email providers")>>
            ELSE <<>>)
  \o
  (IF a.provider = EmailProvider /\ ~MatchesEmailRegex(a.providerId)
     THEN <<ValidationError("providerId", "Provider ID must be a valid email for email provider")>>
     ELSE <<>>)

(***************************************************************************)
(* Bounds and sample inputs                                                *)
(***************************************************************************)

\* Number of use-case invocations one request handler makes in a behaviour.
MaxCalls == 2

\* Request handlers; the ones in `enabled' take requests.
Procs == {1, 2}

\* Well-formed (UUID) user ids: u1 and u2 may be stored initially, u3 is the
\* id of a user deleted earlier, u4 and u5 are generated for new rows.
Ids == {"u1", "u2", "u3", "u4", "u5"}
SeedIds == {"u1", "u2", "u3"}
NotAUuid == "not-a-uuid"

\* /^[0-9a-f]{8}-...$/i.test(userId): the ids of the model that have the
\* UUID shape.
MatchesUuidRegex(id) == id \in Ids

AuthIds == {"k1", "k2", "k3", "k4", "k5"}

EmailA      == <<"a", "@", "x", ".", "c">>
EmailAUpper == <<"A", "@", "X", ".", "c">>
EmailB      == <<"b", "@", "x", ".", "c">>
EmailBad    == <<"a", "b">>
EmailEmpty  == <<>>

NameOk    == <<"A">>
NameBlank == <<" ">>
NameLong  == Rep("a", MaxNameLen + 1)

PwGood    == <<"P", "a", "s", "s", "w", "0", "r", "d">>
PwOther   == <<"P", "a", "s", "s", "w", "1", "r", "d">>
PwNoUpper == <<"p", "a", "s", "s", "w", "0", "r", "d">>
PwNoLower == <<"P", "A", "P", "P", "X", "0", "0", "1">>
PwNoDigit == <<"P", "a", "s", "s", "w", "d", "r", "d">>
PwShort   == <<"P", "a", "1">>
PwLong    == <<"P", "1">> \o Rep("a", MaxPasswordLen - 1)
PwEmpty   == <<>>

GoogleAccount == <<"g", "1">>

\* Pagination of a list query: absent, raw page/pageSize query parameters
\* given as strings ("raw") or as numbers ("rawNumber"; NoNum: parameter
\* absent), a pagination object the boundary built from the query
\* parameters ("built"), or a pagination object handed over as is.
NoNum == -1
NoPaging == [form |-> "none", page |-> NoNum, pageSize |-> NoNum]
Paging(form, page, pageSize) == [form |-> form, page |-> page, pageSize |-> pageSize]

\* A command or query object.  extra names the undeclared fields the object
\* carries besides the declared ones: isAdmin: true, isActive: false,
\* id: 'u1'.
Command(email, firstName, lastName, password, userId) ==
  [email |-> email, firstName |-> firstName, lastName |-> lastName,
   password |-> password, userId |-> userId, paging |-> NoPaging, extra |-> {}]

ExtraFields == {"isAdmin", "isActive", "id"}

\* Register commands: a well-formed one, and its variants in one field (and
\* in all fields at once).
RegisterCommands ==
  { Command(e, NameOk, NameOk, PwGood, NoId) :
      e \in {EmailA, EmailAUpper, EmailB, EmailBad, EmailEmpty} }
  \cup
  { Command(EmailA, NameOk, NameOk, pw, NoId) :
      pw \in {PwNoUpper, PwNoLower, PwNoDigit, PwShort, PwLong, Undefined} }
  \cup
  { Command(EmailA, NameBlank, NameOk, PwGood, NoId),
    Command(EmailA, NameOk, NameLong, PwGood, NoId),
    Command(EmailEmpty, NameBlank, NameLong, PwShort, NoId) }

LoginCommands ==
  { Command(EmailA, Undefined, Undefined, pw, NoId) : pw \in {PwGood, PwOther, PwEmpty} }
  \cup
  { Command(e, Undefined, Undefined, PwGood, NoId) : e \in {EmailAUpper, EmailB, EmailBad} }

UserIdCommands ==
  { Command(Undefined, Undefined, Undefined, Undefined, id) :
      id \in {"u1", "u2", "u3", NotAUuid, NoId} }

ListQueries ==
  { [Command(Undefined, Undefined, Undefined, Undefined, NoId) EXCEPT !.paging = g] :
      g \in { NoPaging,
              Paging("raw", 1, MaxPageSize + 1),
              Paging("raw", 0, 0),
              Paging("rawNumber", 0, 0),
              Paging("built", 1, MaxPageSize + 1),
              Paging("object", 1, MaxPageSize + 1),
              Paging("object", 2, 1) } }

\* context.userId values: absent, a user that may be stored, or the id of a
\* user deleted earlier.
ContextUserIds == {NoId, "u1", "u3"}

(***************************************************************************)
(* State                                                                   *)
(***************************************************************************)
VARIABLES
  users,     \* table users: id -> [email, isActive, isAdmin]
  auths,     \* table user_authentications: id -> [userId, provider, providerId, hashedPassword]
  issued,    \* ids the database has generated so far
  req,       \* per handler: the use-case invocation in progress
  prev,      \* per handler: summary of its previous, finished invocation
  calls,     \* per handler: number of invocations started
  enabled    \* handlers that take requests

vars == <<users, auths, issued, req, prev, calls, enabled>>

UserRow(email, isActive, isAdmin) ==
  [email |-> email, isActive |-> isActive, isAdmin |-> isAdmin]

AuthRow(userId, provider, providerId, hashedPassword) ==
  [userId |-> userId, provider |-> provider, providerId |-> providerId,
   hashedPassword |-> hashedPassword]

EmptyTable == [x \in {} |-> 0]

\* Function f restricted to the keys in S.
Restrict(f, S) == [x \in S |-> f[x]]

\* Function f extended or overwritten at key k.
Put(f, k, v) == [x \in DOMAIN f \cup {k} |-> IF x = k THEN v ELSE f[x]]

Idle ==
  [op |-> "none", pc |-> "idle", ctx |-> NoId,
   cmd |-> Command(Undefined, Undefined, Undefined, Undefined, NoId),
   created |-> NoId, requesterIsAdmin |-> FALSE, todo |-> {},
   result |-> Pending, preUsers |-> EmptyTable, preAuths |-> EmptyTable,
   thrown |-> NoError, nodeEnv |-> "production", response |-> NoResponse,
   harness |-> "none", form |-> "none", tx |-> "none", cb |-> "none",
   caller |-> "none", txWrites |-> EmptyTable,
   client |-> "none", held |-> FALSE, releases |-> 0,
   entity |-> AuthRow(NoId, Undefined, Undefined, NullHash) @@ [id |-> NoId],
   tokens |-> [accessToken |-> <<>>, refreshToken |-> <<>>]]

\* Stores the database can hold before the first request: schema-valid
\* (unique email, unique (provider, providerId), every userId refers to a
\* user).  u1 has email a@x.c, u2 has email b@x.c.
SeedUser1(isActive, isAdmin) == [x \in {"u1"} |-> UserRow(EmailA, isActive, isAdmin)]
SeedUser2 == [x \in {"u2"} |-> UserRow(EmailB, TRUE, FALSE)]

SeedAuth1(hashedPassword) ==
  [x \in {"k1"} |-> AuthRow("u1", EmailProvider, EmailA, hashedPassword)]
SeedAuth1Google ==
  [x \in {"k2"} |-> AuthRow("u1", GoogleProvider, GoogleAccount, NullHash)]
SeedAuth2 ==
  [x \in {"k3"} |-> AuthRow("u2", EmailProvider, EmailB, Hash(PwGood))]

Merge(f, g) == [x \in DOMAIN f \cup DOMAIN g |-> IF x \in DOMAIN f THEN f[x] ELSE g[x]]

Store(us, as) == [users |-> us, auths |-> as]

SeedStores ==
  { \* no rows
    Store(EmptyTable, EmptyTable),
    \* one user with an email credential
    Store(SeedUser1(TRUE, FALSE), SeedAuth1(Hash(PwGood))),
    \* ... deactivated
    Store(SeedUser1(FALSE, FALSE), SeedAuth1(Hash(PwGood))),
    \* ... whose authentication row has no hashed password
    Store(SeedUser1(TRUE, FALSE), SeedAuth1(NullHash)),
    \* an admin with two authentication rows, and a second user
    Store(Merge(SeedUser1(TRUE, TRUE), SeedUser2),
          Merge(Merge(SeedAuth1(Hash(PwGood)), SeedAuth1Google), SeedAuth2)),
    \* a non-admin without authentication rows, and a second user
    Store(Merge(SeedUser1(TRUE, FALSE), SeedUser2), SeedAuth2),
    \* a deactivated admin, and a second user
    Store(Merge(SeedUser1(FALSE, TRUE), SeedUser2),
          Merge(SeedAuth1(Hash(PwGood)), SeedAuth2)) }

InitWith(handlers) ==
  /\ \E s \in SeedStores : users = s.users /\ auths = s.auths
  /\ issued = SeedIds \cup {"k1", "k2", "k3"}
  /\ req = [p \in Procs |-> Idle]
  /\ prev = [p \in Procs |-> Idle]
  /\ calls = [p \in Procs |-> 0]
  /\ enabled = handlers

Init == InitWith({1})

(***************************************************************************)
(* Repository (IUserRepository)                                            *)
(***************************************************************************)

\* UserRepository.findById: the id of the row, or NoId for null.
findById(id) == IF id \in DOMAIN users THEN id ELSE NoId

\* UserRepository.findByEmail: looks up email.toLowerCase().
findByEmail(email) ==
  IF \E id \in DOMAIN users : users[id].email = ToLowerCase(email)
    THEN CHOOSE id \in DOMAIN users : users[id].email = ToLowerCase(email)
    ELSE NoId

\* A lookup that reports no authentication rows.
findNoAuthentication(userId) == {}

\* UserRepository.findAuthenticationByUserId: ids of the rows of a user.
findAuthenticationByUserId(userId) ==
  {k \in DOMAIN auths : auths[k].userId = userId}

\* UserRepository.findUserWithAuthentication: the authentication row with
\* (provider, providerId = email.toLowerCase()) joined with its user; NoId
\* when there is none.
findUserWithAuthentication(email, provider) ==
  LET hits == {k \in DOMAIN auths :
                 /\ auths[k].provider = provider
                 /\ auths[k].providerId = ToLowerCase(email)
                 /\ auths[k].userId \in DOMAIN users}
  IN IF hits = {} THEN NoId ELSE CHOOSE k \in hits : TRUE

\* The unique index users(email).
EmailTaken(email) == \E id \in DOMAIN users : users[id].email = email

\* The unique index user_authentications(provider, providerId).
ProviderTaken(provider, providerId) ==
  \E k \in DOMAIN auths :
     auths[k].provider = provider /\ auths[k].providerId = providerId

\* An id the database has not generated yet.
FreshId(S) == CHOOSE id \in S \ issued : TRUE

(***************************************************************************)
(* RegisterUser                                                            *)
(***************************************************************************)

\* RegisterUserUseCase.validateCommand: the field errors it collects.
RegisterValidateCommand(c) ==
  (IF Falsy(c.email) \/ TrimIsEmpty(c.email)
     THEN <<ValidationError("email", "Email is required")>>
     ELSE IF Len(c.email) > MaxEmailLen
       THEN <<ValidationError("email", "Email must not exceed 255 characters")>>
       ELSE <<>>)
  \o
  (IF Falsy(c.firstName) \/ TrimIsEmpty(c.firstName)
     THEN <<ValidationError("firstName", "First name is required")>>
     ELSE IF Len(c.firstName) > MaxNameLen
       THEN <<ValidationError("firstName", "First name must not exceed 100 characters")>>
       ELSE <<>>)
  \o
  (IF Falsy(c.lastName) \/ TrimIsEmpty(c.lastName)
     THEN <<ValidationError("lastName", "Last name is required")>>
     ELSE IF Len(c.lastName) > MaxNameLen
       THEN <<ValidationError("lastName", "Last name must not exceed 100 characters")>>
       ELSE <<>>)
  \o
  (IF Falsy(c.password)
     THEN <<ValidationError("password", "Password is required")>>
     ELSE <<>>)
  \o
  (IF Falsy(c.password) \/ Len(c.password) < MinPasswordLen
     THEN <<ValidationError("password", "Password must be at least 8 characters long")>>
     ELSE <<>>)
  \o
  (IF c.password # Undefined /\ Len(c.password) > MaxPasswordLen
     THEN <<ValidationError("password", "Password must be less than 128 characters")>>
     ELSE <<>>)

\* command.password.length (line 149) is evaluated on every path: it throws
\* a TypeError when the password is absent.
RegisterValidateCommandThrows(c) == c.password = Undefined

\* A user entity that takes over the fields the command object carries.
NewUserEntityFromCommand(c) ==
  [id |-> IF "id" \in c.extra THEN "u1" ELSE NoId,
   email |-> ToLowerCase(c.email), firstName |-> c.firstName,
   lastName |-> c.lastName, isActive |-> "isActive" \notin c.extra,
   isAdmin |-> "isAdmin" \in c.extra]

\* new User(undefined, email.toLowerCase(), firstName, lastName, true, false)
NewUserEntity(c) ==
  [id |-> NoId, email |-> ToLowerCase(c.email), firstName |-> c.firstName,
   lastName |-> c.lastName, isActive |-> TRUE, isAdmin |-> FALSE]

\* new UserAuthentication(undefined, createdUser.id, 'email',
\*                        email.toLowerCase(), hashedPassword, true)
NewAuthEntity(userId, c) ==
  [id |-> NoId, userId |-> userId, provider |-> EmailProvider,
   providerId |-> ToLowerCase(c.email), hashedPassword |-> Hash(c.password)]

CanStart(p) ==
  /\ p \in enabled
  /\ req[p].pc \in {"idle", "done"}
  /\ calls[p] < MaxCalls

\* The transaction scope routeToUseCase opens around a use case: none, the
\* call through the transaction helper being commented out.
BoundaryScope == "none"

\* The boundary hands (context, command) to a use case: the finished
\* invocation becomes the previous one.
Begin(p, op, ctx, c, pc, result) ==
  /\ prev' = [prev EXCEPT ![p] = req[p]]
  /\ calls' = [calls EXCEPT ![p] = @ + 1]
  /\ req' = [req EXCEPT ![p] =
               [Idle EXCEPT !.op = op, !.pc = pc, !.ctx = ctx, !.cmd = c,
                            !.result = result, !.tx = BoundaryScope,
                            !.preUsers = users, !.preAuths = auths]]

Finish(p, result) ==
  req' = [req EXCEPT ![p].pc = "done", ![p].result = result]

\* execute, up to the first repository call: validateCommand.
RegisterStart(p, c) ==
  /\ CanStart(p)
  /\ IF RegisterValidateCommandThrows(c)
       THEN Begin(p, "register", NoId, c, "done",
                  Raise("TypeError", "Cannot read properties of undefined (reading 'length')"))
       ELSE IF RegisterValidateCommand(c) # <<>>
         THEN Begin(p, "register", NoId, c, "done",
                    RaiseValidation("Invalid registration command",
                                    RegisterValidateCommand(c)))
         ELSE Begin(p, "register", NoId, c, "findByEmail", Pending)
  /\ UNCHANGED <<users, auths, issued, enabled>>

\* await findByEmail, the conflict check, and the validation of the new
\* User entity.
RegisterFindByEmail(p) ==
  /\ IF findByEmail(req[p].cmd.email) # NoId
       THEN Finish(p, Raise("ConflictDomainError", "User with this email already exists"))
       ELSE IF UserValidate(NewUserEntity(req[p].cmd)) # <<>>
         THEN Finish(p, RaiseValidation("User entity validation failed",
                                        UserValidate(NewUserEntity(req[p].cmd))))
         ELSE req' = [req EXCEPT ![p].pc = "create"]
  /\ UNCHANGED <<users, auths, issued>>

\* await userRepository.create; then the password is hashed and the
\* authentication entity is built and validated.
RegisterCreate(p) ==
  LET e == NewUserEntity(req[p].cmd) IN
  /\ IF EmailTaken(e.email)
       THEN \* unique constraint: the storage exception is not translated
            /\ Finish(p, Raise("PrismaClientKnownRequestError", "P2002"))
            /\ UNCHANGED <<users, issued>>
       ELSE
         /\ Ids \ issued # {}
         /\ LET id == FreshId(Ids) IN
            /\ users' = Put(users, id, UserRow(e.email, e.isActive, e.isAdmin))
            /\ issued' = issued \cup {id}
            /\ IF UserAuthenticationValidate(NewAuthEntity(id, req[p].cmd)) # <<>>
                 THEN req' = [req EXCEPT ![p].pc = "done", ![p].created = id,
                                ![p].result =
                                  RaiseValidation("User authentication validation failed",
                                    UserAuthenticationValidate(NewAuthEntity(id, req[p].cmd)))]
                 ELSE req' = [req EXCEPT ![p].pc = "createAuthentication",
                                         ![p].created = id]
  /\ UNCHANGED auths

\* await userRepository.createAuthentication, and the response.  The INSERT
\* names the id column: an entity without id breaks the primary key, which
\* the repository reports as a 'database' error.
RegisterCreateAuthentication(p) ==
  LET a == NewAuthEntity(req[p].created, req[p].cmd) IN
  /\ IF UserAuthenticationValidate(a) # <<>>
       THEN /\ Finish(p, RaiseValidation("Authentication creation failed",
                                         UserAuthenticationValidate(a)))
            /\ UNCHANGED <<auths, issued>>
       ELSE IF a.id = NoId
         THEN /\ Finish(p, RaiseValidation("Authentication creation failed",
                             <<ValidationError("database", "Failed to create user authentication")>>))
              /\ UNCHANGED <<auths, issued>>
       ELSE IF a.userId \notin DOMAIN users
         THEN /\ Finish(p, RaiseValidation("Authentication creation failed",
                             <<ValidationError("userId", "User does not exist")>>))
              /\ UNCHANGED <<auths, issued>>
         ELSE IF ProviderTaken(a.provider, a.providerId)
           THEN /\ Finish(p, RaiseValidation("Authentication creation failed",
                               <<ValidationError("provider", "Authentication already exists for this provider")>>))
                /\ UNCHANGED <<auths, issued>>
           ELSE /\ AuthIds \ issued # {}
                /\ LET k == FreshId(AuthIds) IN
                   /\ auths' = Put(auths, k, AuthRow(a.userId, a.provider,
                                                     a.providerId, a.hashedPassword))
                   /\ issued' = issued \cup {k}
                /\ Finish(p, Ok("User registered successfully",
                                UserDto(req[p].created, users[req[p].created])))
  /\ UNCHANGED users

\* execute resumes after an await: the continuation that runs depends on
\* how far the invocation has come.
RegisterResume(p) ==
  /\ req[p].op = "register"
  /\ req[p].pc \in {"findByEmail", "create", "createAuthentication"}
  /\ IF req[p].pc = "findByEmail" THEN RegisterFindByEmail(p)
     ELSE IF req[p].pc = "create" THEN RegisterCreate(p)
     ELSE RegisterCreateAuthentication(p)
  /\ UNCHANGED <<prev, calls, enabled>>

(***************************************************************************)
(* LoginUser                                                               *)
(***************************************************************************)

\* LoginUserUseCase.validateCommand
LoginValidateCommand(c) ==
  (IF Falsy(c.email) \/ TrimIsEmpty(c.email)
     THEN <<ValidationError("email", "Email is required")>>
     ELSE (IF Len(c.email) > MaxLoginEmailLen
             THEN <<ValidationError("email", "Email is too long")>>
             ELSE <<>>)
          \o
          (IF ~MatchesEmailRegex(c.email)
             THEN <<ValidationError("email", "Invalid email format")>>
             ELSE <<>>))
  \o
  (IF Falsy(c.password)
     THEN <<ValidationError("password", "Password is required")>>
     ELSE IF Len(c.password) > MaxPasswordLen
       THEN <<ValidationError("password", "Password is too long")>>
       ELSE <<>>)

\* The decision execute takes on the row found by
\* findUserWithAuthentication (k is NoId when nothing was found).
LoginOutcome(c, k) ==
  IF k = NoId
    THEN RaiseJson(<<ValidationError("email", "Invalid email or password")>>)
    ELSE IF ~users[auths[k].userId].isActive
      THEN RaiseJson(<<ValidationError("account", "Account is deactivated")>>)
      ELSE IF auths[k].hashedPassword = NullHash
        THEN RaiseJson(<<ValidationError("password", "Invalid email or password")>>)
        ELSE IF ~Compare(c.password, auths[k].hashedPassword)
          THEN RaiseJson(<<ValidationError("password", "Invalid email or password")>>)
          ELSE Ok("Login successful",
                  UserDto(auths[k].userId, users[auths[k].userId]))

LoginStart(p, c) ==
  /\ CanStart(p)
  /\ IF LoginValidateCommand(c) # <<>>
       THEN Begin(p, "login", NoId, c, "done", RaiseJson(LoginValidateCommand(c)))
       ELSE Begin(p, "login", NoId, c, "findUserWithAuthentication", Pending)
  /\ UNCHANGED <<users, auths, issued, enabled>>

\* A login that deactivates the account when the attempt fails.
LoginLocksAccountOnFailure(p) ==
  /\ req[p].op = "login" /\ req[p].pc = "findUserWithAuthentication"
  /\ Finish(p, LoginOutcome(req[p].cmd,
                            findUserWithAuthentication(req[p].cmd.email, EmailProvider)))
  /\ users' = IF /\ LoginOutcome(req[p].cmd,
                     findUserWithAuthentication(req[p].cmd.email, EmailProvider)).kind # "ok"
                 /\ findByEmail(req[p].cmd.email) # NoId
               THEN [users EXCEPT ![findByEmail(req[p].cmd.email)].isActive = FALSE]
               ELSE users
  /\ UNCHANGED <<auths, issued, prev, calls, enabled>>

\* await findUserWithAuthentication(email, 'email') and the checks of its
\* result.
LoginFindUserWithAuthentication(p) ==
  /\ req[p].op = "login" /\ req[p].pc = "findUserWithAuthentication"
  /\ Finish(p, LoginOutcome(req[p].cmd,
                            findUserWithAuthentication(req[p].cmd.email, EmailProvider)))
  /\ UNCHANGED <<users, auths, issued, prev, calls, enabled>>

(***************************************************************************)
(* DeleteUser                                                              *)
(***************************************************************************)

\* DeleteUserUseCase.validateCommand
DeleteValidateCommand(c) ==
  IF c.userId = NoId \/ c.userId = ""
    THEN <<ValidationError("userId", "User ID is required")>>
    ELSE IF ~MatchesUuidRegex(c.userId)
      THEN <<ValidationError("userId", "User ID must be a valid UUID")>>
      ELSE <<>>

\* An authorization rule that forgets the admin privilege.
CanDeleteSelfOnly(ctxUserId, isAdmin, targetId) ==
  ctxUserId = targetId

\* The authorization rule of DeleteUserUseCase.execute.
CanDelete(ctxUserId, isAdmin, targetId) ==
  ctxUserId = targetId \/ isAdmin

\* A start that validates the command before it looks at the context.
DeleteStartValidatesFirst(p, ctx, c) ==
  /\ CanStart(p)
  /\ IF DeleteValidateCommand(c) # <<>>
       THEN Begin(p, "delete", ctx, c, "done",
                  RaiseValidation("Invalid delete user command",
                                  DeleteValidateCommand(c)))
       ELSE IF ctx = NoId
         THEN Begin(p, "delete", ctx, c, "done",
                    Raise("AuthenticationDomainError", "Authentication required"))
         ELSE Begin(p, "delete", ctx, c, "findRequestingUser", Pending)
  /\ UNCHANGED <<users, auths, issued, enabled>>

\* execute up to the first repository call: the context check, then
\* validateCommand.
DeleteStart(p, ctx, c) ==
  /\ CanStart(p)
  /\ IF ctx = NoId
       THEN Begin(p, "delete", ctx, c, "done",
                  Raise("AuthenticationDomainError", "Authentication required"))
       ELSE IF DeleteValidateCommand(c) # <<>>
         THEN Begin(p, "delete", ctx, c, "done",
                    RaiseValidation("Invalid delete user command",
                                    DeleteValidateCommand(c)))
         ELSE Begin(p, "delete", ctx, c, "findRequestingUser", Pending)
  /\ UNCHANGED <<users, auths, issued, enabled>>

\* A first step that goes on to the target without resolving the caller.
DeleteSkipRequestingUser(p) ==
  /\ req[p].op = "delete" /\ req[p].pc = "findRequestingUser"
  /\ req' = [req EXCEPT ![p].pc = "findTargetUser"]
  /\ UNCHANGED <<users, auths, issued, prev, calls, enabled>>

\* findById(context.userId) and the check of the requesting user.
DeleteFindRequestingUser(p) ==
  /\ req[p].op = "delete" /\ req[p].pc = "findRequestingUser"
  /\ IF findById(req[p].ctx) = NoId
       THEN Finish(p, Raise("AuthenticationDomainError", "Invalid user session"))
       ELSE req' = [req EXCEPT ![p].pc = "findTargetUser",
                               ![p].requesterIsAdmin = users[req[p].ctx].isAdmin]
  /\ UNCHANGED <<users, auths, issued, prev, calls, enabled>>

\* findById(command.userId) and the authorization check.
DeleteFindTargetUser(p) ==
  /\ req[p].op = "delete" /\ req[p].pc = "findTargetUser"
  /\ IF findById(req[p].cmd.userId) = NoId
       THEN Finish(p, Raise("NotFoundDomainError", "User not found"))
       ELSE IF ~CanDelete(req[p].ctx, req[p].requesterIsAdmin, req[p].cmd.userId)
         THEN Finish(p, Raise("AuthorizationDomainError",
                              "You do not have permission to delete this user"))
         ELSE req' = [req EXCEPT ![p].pc = "findAuthentications"]
  /\ UNCHANGED <<users, auths, issued, prev, calls, enabled>>

DeleteFindAuthentications(p) ==
  /\ req[p].op = "delete" /\ req[p].pc = "findAuthentications"
  /\ req' = [req EXCEPT ![p].pc = "deleteAuthentications",
                        ![p].todo = findAuthenticationByUserId(req[p].cmd.userId)]
  /\ UNCHANGED <<users, auths, issued, prev, calls, enabled>>

\* One turn of the loop: deleteAuthentication(auth.id) and the check of its
\* result.
DeleteAuthentication(p) ==
  /\ req[p].op = "delete" /\ req[p].pc = "deleteAuthentications"
  /\ req[p].todo # {}
  /\ \E k \in req[p].todo :
       IF k \in DOMAIN auths
         THEN /\ auths' = Restrict(auths, DOMAIN auths \ {k})
              /\ req' = [req EXCEPT ![p].todo = @ \ {k}]
         ELSE /\ Finish(p, RaiseValidation("Failed to delete user authentication records",
                             <<ValidationError("id", "User authentication not found")>>))
              /\ UNCHANGED auths
  /\ UNCHANGED <<users, issued, prev, calls, enabled>>

\* A final step that reports success without deleting the user row.
DeleteUserRowKeepsRow(p) ==
  /\ req[p].op = "delete" /\ req[p].pc = "deleteAuthentications"
  /\ req[p].todo = {}
  /\ Finish(p, Ok("User deleted successfully", NoDto))
  /\ UNCHANGED <<users, auths, issued, prev, calls, enabled>>

\* userRepository.delete(command.userId), the check of its result, and the
\* response.
DeleteUserRow(p) ==
  /\ req[p].op = "delete" /\ req[p].pc = "deleteAuthentications"
  /\ req[p].todo = {}
  /\ IF req[p].cmd.userId \in DOMAIN users
       THEN /\ users' = Restrict(users, DOMAIN users \ {req[p].cmd.userId})
            /\ auths' = Restrict(auths, {k \in DOMAIN auths :
                                           auths[k].userId # req[p].cmd.userId})
            /\ Finish(p, Ok("User deleted successfully", NoDto))
       ELSE /\ Finish(p, RaiseValidation("Failed to delete user",
                           <<ValidationError("id", "User not found")>>))
            /\ UNCHANGED <<users, auths>>
  /\ UNCHANGED <<issued, prev, calls, enabled>>

(***************************************************************************)
(* GetUserProfile                                                          *)
(***************************************************************************)

\* GetUserProfileUseCase.validateQuery
ProfileValidateQuery(c) ==
  IF c.userId = NoId \/ c.userId = ""
    THEN <<ValidationError("userId", "User ID is required")>>
    ELSE <<>>

\* A start that reads the profile asked for, whoever asks.
ProfileStartAnyCaller(p, ctx, c) ==
  /\ CanStart(p)
  /\ Begin(p, "profile", ctx, c, "findById", Pending)
  /\ UNCHANGED <<users, auths, issued, enabled>>

\* execute up to the repository call: validateQuery, then authorizationCheck.
ProfileStart(p, ctx, c) ==
  /\ CanStart(p)
  /\ IF ProfileValidateQuery(c) # <<>>
       THEN Begin(p, "profile", ctx, c, "done",
                  RaiseValidation("Invalid get profile query", ProfileValidateQuery(c)))
       ELSE IF ctx = NoId
         THEN Begin(p, "profile", ctx, c, "done",
                    Raise("AuthorizationDomainError", "Authentication required"))
         ELSE IF ctx # c.userId
           THEN Begin(p, "profile", ctx, c, "done",
                      Raise("AuthorizationDomainError",
                            "Access denied - can only access own profile"))
           ELSE Begin(p, "profile", ctx, c, "findById", Pending)
  /\ UNCHANGED <<users, auths, issued, enabled>>

ProfileFindById(p) ==
  /\ req[p].op = "profile" /\ req[p].pc = "findById"
  /\ LET id == findById(req[p].cmd.userId) IN
     IF id = NoId
       THEN Finish(p, Raise("NotFoundDomainError", "User not found"))
       ELSE IF ~users[id].isActive
         THEN Finish(p, Raise("AuthorizationDomainError", "Account is not active"))
         ELSE Finish(p, Ok("", UserDto(id, users[id])))
  /\ UNCHANGED <<users, auths, issued, prev, calls, enabled>>

(***************************************************************************)
(* ListAllUsers (GetAllUsersUseCase)                                       *)
(***************************************************************************)

Max(a, b) == IF a > b THEN a ELSE b
Min(a, b) == IF a < b THEN a ELSE b

\* new PaginationParams(page, pageSize)
PaginationParams(page, pageSize) ==
  [page |-> Max(1, page), pageSize |-> Min(Max(1, pageSize), MaxPageSize)]

\* The pagination execute resolves from the query.  Raw parameters go
\* through new PaginationParams in execute; the boundary's object went
\* through the same constructor, with the same defaults, in the route.  An
\* absent parameter and the number 0 are falsy and get the default; the
\* string "0" is parsed to 0.
ResolvePagination(g) ==
  IF g.form = "object"
    THEN [page |-> g.page, pageSize |-> g.pageSize]
    ELSE LET falsy(v) == v = NoNum \/ (g.form = "rawNumber" /\ v = 0)
         IN PaginationParams(IF falsy(g.page) THEN DefaultPage ELSE g.page,
                             IF falsy(g.pageSize) THEN DefaultPageSize ELSE g.pageSize)

\* GetAllUsersUseCase.validatePagination
ValidatePagination(pg) ==
  (IF pg.page < 1
     THEN <<ValidationError("page", "Page must be a positive number")>>
     ELSE <<>>)
  \o
  (IF pg.pageSize < 1 \/ pg.pageSize > MaxPageSize
     THEN <<ValidationError("pageSize", "Page size must be a number between 1 and 500")>>
     ELSE <<>>)

\* UserRepository.findMany: the rows in createdAt order are numbered
\* 1..totalCount; the query skips the first `skip` of them and takes at most
\* pageSize.  The result is the number of rows of the page and the metadata.
findMany(pg) ==
  LET totalCount == Cardinality(DOMAIN users)
      skip       == (pg.page - 1) * pg.pageSize
      rows       == { i \in 1..totalCount : skip < i /\ i <= skip + pg.pageSize }
  IN OkPage(Cardinality(rows), PaginationMeta(totalCount, pg.page, pg.pageSize))

\* execute up to the first repository call: the userId check of
\* authorizationCheck.
ListStart(p, ctx, c) ==
  /\ CanStart(p)
  /\ IF ctx = NoId
       THEN Begin(p, "list", ctx, c, "done",
                  Raise("AuthorizationDomainError", "Authentication required"))
       ELSE Begin(p, "list", ctx, c, "authorizationCheck", Pending)
  /\ UNCHANGED <<users, auths, issued, enabled>>

\* The rest of authorizationCheck, then the pagination is resolved and
\* validated.
ListAuthorizationCheck(p) ==
  /\ req[p].op = "list" /\ req[p].pc = "authorizationCheck"
  /\ LET id == findById(req[p].ctx) IN
     IF id = NoId
       THEN Finish(p, Raise("NotFoundDomainError", "User not found"))
       ELSE IF ~users[id].isActive
         THEN Finish(p, Raise("AuthorizationDomainError", "Account is not active"))
         ELSE IF ~users[id].isAdmin
           THEN Finish(p, Raise("AuthorizationDomainError",
                                "Access denied - admin privileges required"))
           ELSE IF ValidatePagination(ResolvePagination(req[p].cmd.paging)) # <<>>
             THEN Finish(p, RaiseValidation("Invalid pagination parameters",
                              ValidatePagination(ResolvePagination(req[p].cmd.paging))))
             ELSE req' = [req EXCEPT ![p].pc = "list"]
  /\ UNCHANGED <<users, auths, issued, prev, calls, enabled>>

ListFindMany(p) ==
  /\ req[p].op = "list" /\ req[p].pc = "list"
  /\ Finish(p, findMany(ResolvePagination(req[p].cmd.paging)))
  /\ UNCHANGED <<users, auths, issued, prev, calls, enabled>>

(***************************************************************************)
(* Specification                                                           *)
(***************************************************************************)
Next ==
  \E p \in Procs :
    \/ \E c \in RegisterCommands : RegisterStart(p, c)
    \/ RegisterResume(p)
    \/ \E c \in LoginCommands : LoginStart(p, c)
    \/ LoginFindUserWithAuthentication(p)
    \/ \E ctx \in ContextUserIds : \E c \in UserIdCommands : DeleteStart(p, ctx, c)
    \/ DeleteFindRequestingUser(p)
    \/ DeleteFindTargetUser(p)
    \/ DeleteFindAuthentications(p)
    \/ DeleteAuthentication(p)
    \/ DeleteUserRow(p)
    \/ \E ctx \in ContextUserIds : \E c \in UserIdCommands : ProfileStart(p, ctx, c)
    \/ ProfileFindById(p)
    \/ \E ctx \in ContextUserIds : \E c \in ListQueries : ListStart(p, ctx, c)
    \/ ListAuthorizationCheck(p)
    \/ ListFindMany(p)

Spec == Init /\ [][Next]_vars

TypeOK ==
  /\ DOMAIN users \subseteq Ids
  /\ DOMAIN auths \subseteq AuthIds
  /\ \A p \in Procs : calls[p] \in 0..MaxCalls

(***************************************************************************)
(* Listing stores of any size                                              *)
(*                                                                         *)
(* PageSpec starts from a store of 0..MaxTotal users, the first of them an *)
(* active admin, and asks for every page 1..MaxPage at several page sizes, *)
(* through ListAllUsers and through the repository's findMany directly (a  *)
(* store without rows has no admin to ask through the use case).           *)
(***************************************************************************)
MaxTotal == 4
MaxPage == 4

PageSizes == (1..MaxTotal) \cup {MaxPageSize}

RowId(i) == "u" \o ToString(i)

PageStore(n) ==
  [x \in { RowId(i) : i \in 1..n } |->
     UserRow(<<x, "@", "x", ".", "c">>, TRUE, x = RowId(1))]

PageQueries ==
  { [Command(Undefined, Undefined, Undefined, Undefined, NoId)
       EXCEPT !.paging = Paging("object", page, pageSize)] :
      page \in 1..MaxPage, pageSize \in PageSizes }

PageInit ==
  /\ \E n \in 0..MaxTotal : users = PageStore(n)
  /\ auths = EmptyTable
  /\ issued = SeedIds \cup DOMAIN users
  /\ req = [p \in Procs |-> Idle]
  /\ prev = [p \in Procs |-> Idle]
  /\ calls = [p \in Procs |-> 0]
  /\ enabled = {1}

\* userRepository.findMany(pagination) called on its own.
FindManyCall(p, c) ==
  /\ CanStart(p)
  /\ Begin(p, "findMany", NoId, c, "done", findMany(ResolvePagination(c.paging)))
  /\ UNCHANGED <<users, auths, issued, enabled>>

PageNext ==
  \E p \in Procs :
    \/ \E c \in PageQueries : ListStart(p, RowId(1), c)
    \/ ListAuthorizationCheck(p)
    \/ ListFindMany(p)
    \/ \E c \in PageQueries : FindManyCall(p, c)

PageSpec == PageInit /\ [][PageNext]_vars

(***************************************************************************)
(* Error responses                                                         *)
(*                                                                         *)
(* ErrorSpec hands ErrorHandler.handle the errors the use cases, the       *)
(* repository and the authentication middleware raise (wrapAsync and the   *)
(* middleware pass them on with next(error)), under both settings of       *)
(* NODE_ENV.  The middleware is the revision that throws domain errors.    *)
(***************************************************************************)
RECURSIVE JsonStringifyItems(_)
JsonStringifyItems(errors) ==
  IF errors = <<>> THEN ""
  ELSE "{field:" \o Head(errors).field \o ",message:" \o Head(errors).message \o "}"
       \o JsonStringifyItems(Tail(errors))

\* JSON.stringify(errors)
JsonStringify(errors) == "[" \o JsonStringifyItems(errors) \o "]"

\* The value a use case throws, from the outcome it ends with.
Thrown(result) ==
  IF result.kind \in DomainErrorClasses
    THEN DomainErrorOf(result.kind, result.message, result.fieldErrors)
    ELSE IF result.fieldErrors # <<>>
      THEN PlainError(result.kind, JsonStringify(result.fieldErrors))
      ELSE PlainError(result.kind, result.message)

\* Errors raised by the program: by the use cases, and SystemErrors of the
\* repository.
ProgramErrors ==
  { Thrown(r) : r \in
      { RaiseValidation("Invalid pagination parameters",
                        ValidatePagination([page |-> 0, pageSize |-> 0])),
        RaiseValidation("Invalid get profile query",
                        ProfileValidateQuery(Command(Undefined, Undefined, Undefined,
                                                     Undefined, NoId))),
        Raise("AuthenticationDomainError", "Invalid user session"),
        Raise("AuthorizationDomainError", "Authentication required"),
        Raise("NotFoundDomainError", "User not found"),
        Raise("ConflictDomainError", "User with this email already exists"),
        Raise("SystemError", "Unexpected database error during user update"),
        Raise("SystemError", "Unexpected database error during user deletion"),
        RaiseJson(<<ValidationError("email", "Invalid email or password")>>),
        RaiseJson(<<ValidationError("account", "Account is deactivated")>>),
        Raise("TypeError", "Cannot read properties of undefined (reading 'length')") } }

\* ... and a DomainError built with a code the enum does not have.
RaisedErrors == ProgramErrors \cup {BaseDomainError("TEAPOT", "Unknown failure")}

\* Authorization header: absent, a token that does not verify, a valid one.
Tokens == {"none", "invalid", "valid"}

Handled(p, op, ctx, error, nodeEnv, response) ==
  /\ prev' = [prev EXCEPT ![p] = req[p]]
  /\ calls' = [calls EXCEPT ![p] = @ + 1]
  /\ req' = [req EXCEPT ![p] =
               [Idle EXCEPT !.op = op, !.pc = "done", !.ctx = ctx, !.thrown = error,
                            !.nodeEnv = nodeEnv, !.response = response]]
  /\ UNCHANGED <<users, auths, issued, enabled>>

\* A route handler rejects with error: wrapAsync passes it to
\* ErrorHandler.handle.
HandleError(p, error, nodeEnv) ==
  /\ CanStart(p)
  /\ Handled(p, "handle", NoId, error, nodeEnv, handle(error, nodeEnv))

\* AuthMiddleware.authenticate: a failure is thrown as an
\* AuthenticationDomainError and passed to the error handler; a valid token
\* sets the context and sends no response.
Authenticate(p, token, nodeEnv) ==
  /\ CanStart(p)
  /\ LET missing == DomainErrorOf("AuthenticationDomainError", "Authentication required", <<>>)
         invalid == DomainErrorOf("AuthenticationDomainError", "Invalid or expired token", <<>>)
     IN CASE token = "none" ->
               Handled(p, "authenticate", NoId, missing, nodeEnv, handle(missing, nodeEnv))
          [] token = "invalid" ->
               Handled(p, "authenticate", NoId, invalid, nodeEnv, handle(invalid, nodeEnv))
          [] OTHER ->
               Handled(p, "authenticate", "u1", NoError, nodeEnv, NoResponse)

ErrorNext ==
  \E p \in Procs : \E nodeEnv \in NodeEnvs :
    \/ \E error \in RaisedErrors : HandleError(p, error, nodeEnv)
    \/ \E token \in Tokens : Authenticate(p, token, nodeEnv)

ErrorSpec == Init /\ [][ErrorNext]_vars

(***************************************************************************)
(* Transaction harness                                                     *)
(*                                                                         *)
(* TxSpec runs a callback under each of the three harnesses of the         *)
(* repository.  A callback either returns or throws at once (it is not     *)
(* async), or it is async: it writes one user row through the repository   *)
(* bound to the transaction, suspends on that call, and then returns or    *)
(* rejects.  Per invocation: tx is the state of the transaction, cb the    *)
(* position of the callback, caller what the harness's caller has seen of  *)
(* the call, txWrites the rows written inside the transaction.             *)
(***************************************************************************)
Harnesses == {"transactionally", "PrismaTransactionHelper", "TransactionHelper"}

CallbackForms == {"syncReturn", "syncThrow", "asyncReturn", "asyncReject"}

\* The row an async callback creates.
TxRow(p) == [x \in {RowId(3 + calls[p])} |-> UserRow(<<"t", "@", "x", ".", "c">>, TRUE, FALSE)]

\* The harness is called.  transactionally starts prisma.$transaction and
\* returns to its caller without the promise; the helpers' callers await.
TxBegin(p, harness, form) ==
  /\ CanStart(p)
  /\ prev' = [prev EXCEPT ![p] = req[p]]
  /\ calls' = [calls EXCEPT ![p] = @ + 1]
  /\ req' = [req EXCEPT ![p] =
               [Idle EXCEPT !.op = "transaction", !.pc = "callback",
                            !.harness = harness, !.form = form,
                            !.tx = "open", !.cb = "notStarted",
                            !.caller = IF harness = "transactionally"
                                         THEN "returned" ELSE "waiting",
                            !.preUsers = users, !.preAuths = auths]]
  /\ UNCHANGED <<users, auths, issued, enabled>>

\* The harness calls the callback, which runs up to its first suspension.
\* Under transactionally the transaction function is over as soon as the
\* callback has handed back its promise, so the commit races with the
\* write the callback has just issued: the write is part of the
\* transaction, or it fails on a closed transaction.
TxCallbackStart(p) ==
  /\ req[p].op = "transaction" /\ req[p].pc = "callback" /\ req[p].cb = "notStarted"
  /\ CASE req[p].form = "syncReturn" -> req' = [req EXCEPT ![p].cb = "returned"]
       [] req[p].form = "syncThrow"  -> req' = [req EXCEPT ![p].cb = "raised"]
       [] OTHER ->
            \/ req' = [req EXCEPT ![p].cb = "suspended", ![p].txWrites = TxRow(p)]
            \/ /\ req[p].harness = "transactionally"
               /\ req' = [req EXCEPT ![p].cb = "suspended"]
  /\ UNCHANGED <<users, auths, issued, prev, calls, enabled>>

\* An async callback runs on to its end.
TxCallbackResume(p) ==
  /\ req[p].op = "transaction" /\ req[p].cb = "suspended"
  /\ req' = [req EXCEPT
               ![p].cb = IF req[p].form = "asyncReturn" THEN "returned" ELSE "raised",
               ![p].pc = IF req[p].tx = "open" THEN "callback" ELSE "done"]
  /\ UNCHANGED <<users, auths, issued, prev, calls, enabled>>

Commit(p, caller) ==
  /\ users' = Merge(req[p].txWrites, users)
  /\ req' = [req EXCEPT ![p].tx = "committed", ![p].caller = caller,
                        ![p].pc = IF req[p].cb = "suspended" THEN "callback" ELSE "done"]

Rollback(p, caller) ==
  /\ users' = users
  /\ req' = [req EXCEPT ![p].tx = "rolledBack", ![p].caller = caller, ![p].pc = "done"]

\* The transaction function is over: the harness commits or rolls back.
\* The helpers await the callback and rethrow; transactionally neither
\* awaits the callback nor hands the transaction's promise to its caller.
TxSettle(p) ==
  /\ req[p].op = "transaction" /\ req[p].tx = "open"
  /\ IF req[p].harness = "transactionally"
       THEN /\ req[p].cb # "notStarted"
            /\ IF req[p].cb = "raised" /\ req[p].form = "syncThrow"
                 THEN Rollback(p, req[p].caller)
                 ELSE Commit(p, req[p].caller)
       ELSE /\ req[p].cb \in {"returned", "raised"}
            /\ IF req[p].cb = "raised"
                 THEN Rollback(p, "raised")
                 ELSE Commit(p, "returned")
  /\ UNCHANGED <<auths, issued, prev, calls, enabled>>

TxNext ==
  \E p \in Procs :
    \/ \E harness \in Harnesses : \E form \in CallbackForms : TxBegin(p, harness, form)
    \/ TxCallbackStart(p)
    \/ TxCallbackResume(p)
    \/ TxSettle(p)

TxSpec == Init /\ [][TxNext]_vars

(***************************************************************************)
(* Pooled connections                                                      *)
(*                                                                         *)
(* PoolSpec runs concurrent executeInTransaction / Database.transaction    *)
(* calls over a pool of PoolSize connections.  pool.connect() hands out a  *)
(* connection no call holds and waits while there is none.  Each of BEGIN, *)
(* COMMIT and ROLLBACK may fail.  Per call: client is the connection it    *)
(* got, held whether it has it checked out, releases how often it has      *)
(* called client.release().                                                *)
(***************************************************************************)
PoolSize == 1

Connections == { "c" \o ToString(i) : i \in 1..PoolSize }

PoolHarnesses == {"TransactionHelper", "Database"}

IdleConnections == Connections \ { req[q].client : q \in { r \in Procs : req[r].held } }

\* const client = await this.pool.connect()
PoolConnect(p, harness, form) ==
  /\ CanStart(p)
  /\ \E c \in IdleConnections :
       /\ calls' = [calls EXCEPT ![p] = @ + 1]
       /\ req' = [req EXCEPT ![p] =
                    [Idle EXCEPT !.op = "pooled", !.pc = "begin",
                                 !.harness = harness, !.form = form,
                                 !.cb = "notStarted", !.caller = "waiting",
                                 !.client = c, !.held = TRUE,
                                 !.preUsers = users, !.preAuths = auths]]
  /\ UNCHANGED <<users, auths, issued, prev, enabled>>

\* await client.query('BEGIN'): it succeeds, or it throws into the catch.
PoolBegin(p) ==
  /\ req[p].op = "pooled" /\ req[p].pc = "begin"
  /\ \/ req' = [req EXCEPT ![p].pc = "callback", ![p].tx = "open"]
     \/ req' = [req EXCEPT ![p].pc = "rollback"]
  /\ UNCHANGED <<users, auths, issued, prev, calls, enabled>>

\* const result = await callback(client)
PoolCallback(p) ==
  /\ req[p].op = "pooled" /\ req[p].pc = "callback"
  /\ IF req[p].form = "asyncReturn"
       THEN req' = [req EXCEPT ![p].pc = "commit", ![p].cb = "returned"]
       ELSE req' = [req EXCEPT ![p].pc = "rollback", ![p].cb = "raised"]
  /\ UNCHANGED <<users, auths, issued, prev, calls, enabled>>

\* await client.query('COMMIT'); return result
PoolCommit(p) ==
  /\ req[p].op = "pooled" /\ req[p].pc = "commit"
  /\ \/ req' = [req EXCEPT ![p].pc = "release", ![p].tx = "committed",
                           ![p].caller = "returned"]
     \/ req' = [req EXCEPT ![p].pc = "rollback"]
  /\ UNCHANGED <<users, auths, issued, prev, calls, enabled>>

\* catch: await client.query('ROLLBACK'); throw error.  If ROLLBACK throws,
\* that error leaves the catch instead.
PoolRollback(p) ==
  /\ req[p].op = "pooled" /\ req[p].pc = "rollback"
  /\ \/ req' = [req EXCEPT ![p].pc = "release", ![p].tx = "rolledBack",
                           ![p].caller = "raised"]
     \/ req' = [req EXCEPT ![p].pc = "release", ![p].tx = "failed",
                           ![p].caller = "raised"]
  /\ UNCHANGED <<users, auths, issued, prev, calls, enabled>>

\* A harness that releases at the end of try and of catch, not in finally:
\* a failed ROLLBACK skips the release.
PoolReleaseUnlessRollbackFailed(p) ==
  /\ req[p].op = "pooled" /\ req[p].pc = "release"
  /\ IF req[p].tx = "failed"
       THEN req' = [req EXCEPT ![p].pc = "done"]
       ELSE req' = [req EXCEPT ![p].pc = "done", ![p].held = FALSE,
                              ![p].releases = @ + 1]
  /\ UNCHANGED <<users, auths, issued, prev, calls, enabled>>

\* finally: client.release()
PoolRelease(p) ==
  /\ req[p].op = "pooled" /\ req[p].pc = "release"
  /\ req' = [req EXCEPT ![p].pc = "done", ![p].held = FALSE, ![p].releases = @ + 1]
  /\ UNCHANGED <<users, auths, issued, prev, calls, enabled>>

PoolNext ==
  \E p \in Procs :
    \/ \E harness \in PoolHarnesses : \E form \in {"asyncReturn", "asyncReject"} :
         PoolConnect(p, harness, form)
    \/ PoolBegin(p)
    \/ PoolCallback(p)
    \/ PoolCommit(p)
    \/ PoolRollback(p)
    \/ PoolRelease(p)

PoolSpec == InitWith(Procs) /\ [][PoolNext]_vars

(***************************************************************************)
(* Concurrent registrations                                                *)
(*                                                                         *)
(* RaceSpec lets both handlers run RegisterUser at once, with well-formed  *)
(* commands for one email address (in two spellings, and once with        *)
(* undeclared fields in the request body), so that both can pass           *)
(* findByEmail before either goes on.                                      *)
(***************************************************************************)
RaceCommands ==
  { Command(e, NameOk, NameOk, PwGood, NoId) : e \in {EmailA, EmailAUpper} }
  \cup
  { [Command(EmailA, NameOk, NameOk, PwGood, NoId) EXCEPT !.extra = ExtraFields] }

RaceNext ==
  \E p \in Procs :
    \/ \E c \in RaceCommands : RegisterStart(p, c)
    \/ RegisterResume(p)

RaceSpec == InitWith(Procs) /\ [][RaceNext]_vars

(***************************************************************************)
(* Validation of authentication entities                                   *)
(*                                                                         *)
(* EntitySpec constructs one UserAuthentication from each combination of   *)
(* constructor arguments below and calls validate() on it.                 *)
(***************************************************************************)

EmailProviderCapital == <<"E","m","a","i","l">>
GoogleProviderCapital == <<"G","o","o","g","l","e">>
UnknownProvider == <<"l","d","a","p">>

\* new UserAuthentication(undefined, userId, provider, providerId,
\*                        hashedPassword)
AuthEntities ==
  { AuthRow(userId, provider, providerId, hashedPassword) @@ [id |-> NoId] :
      userId \in {"u1", NoId},
      provider \in {EmailProvider, EmailProviderCapital, GoogleProvider,
                    GoogleProviderCapital, UnknownProvider, Undefined},
      providerId \in {EmailA, EmailBad, Undefined},
      hashedPassword \in {NullHash, Hash(PwGood),
                          [Hash(PwGood) EXCEPT !.len = MinHashLen - 1]} }

EntityInit ==
  /\ users = EmptyTable /\ auths = EmptyTable
  /\ issued = SeedIds \cup {"k1", "k2", "k3"}
  /\ \E a \in AuthEntities :
       req = [p \in Procs |-> [Idle EXCEPT !.op = "validate", !.entity = a]]
  /\ prev = [p \in Procs |-> Idle]
  /\ calls = [p \in Procs |-> 0]
  /\ enabled = {1}

\* validate(): ValidationResult.success() or ValidationResult.failure(errors)
ValidateEntity(p) ==
  /\ p \in enabled /\ req[p].op = "validate" /\ req[p].pc = "idle"
  /\ req' = [req EXCEPT ![p].pc = "done",
                        ![p].result =
                          IF UserAuthenticationValidate(req[p].entity) = <<>>
                            THEN [Pending EXCEPT !.kind = "ok"]
                            ELSE [Pending EXCEPT
                                    !.kind = "failure",
                                    !.fieldErrors =
                                      UserAuthenticationValidate(req[p].entity)]]
  /\ UNCHANGED <<users, auths, issued, prev, calls, enabled>>

EntityNext == \E p \in Procs : ValidateEntity(p)

EntitySpec == EntityInit /\ [][EntityNext]_vars

(***************************************************************************)
(* Concurrent deletions                                                    *)
(*                                                                         *)
(* DeleteRaceSpec lets both handlers run DeleteUser at once for the same   *)
(* target: the account owner in two sessions, or the owner and another     *)
(* user.  routeToUseCase opens no transaction around the use case, so each *)
(* repository call takes effect when it is made.                           *)
(***************************************************************************)
DeleteRaceNext ==
  \E p \in Procs :
    \/ \E ctx \in {"u1", "u2"} :
         DeleteStart(p, ctx, Command(Undefined, Undefined, Undefined, Undefined, "u1"))
    \/ DeleteFindRequestingUser(p)
    \/ DeleteFindTargetUser(p)
    \/ DeleteFindAuthentications(p)
    \/ DeleteAuthentication(p)
    \/ DeleteUserRow(p)

DeleteRaceSpec == InitWith(Procs) /\ [][DeleteRaceNext]_vars

(***************************************************************************)
(* Registrations and deletions at once                                     *)
(*                                                                         *)
(* LifecycleSpec interleaves RegisterUser and DeleteUser calls of the two  *)
(* handlers in every order, on every seed store.                           *)
(***************************************************************************)
LifecycleNext ==
  \E p \in Procs :
    \/ \E c \in {r \in RaceCommands : r.extra # {}} : RegisterStart(p, c)
    \/ RegisterResume(p)
    \/ \E ctx \in {"u1", "u2"} :
         DeleteStart(p, ctx, Command(Undefined, Undefined, Undefined, Undefined, "u1"))
    \/ DeleteFindRequestingUser(p)
    \/ DeleteFindTargetUser(p)
    \/ DeleteFindAuthentications(p)
    \/ DeleteAuthentication(p)
    \/ DeleteUserRow(p)

LifecycleSpec == InitWith(Procs) /\ [][LifecycleNext]_vars

(***************************************************************************)
(* Token responses                                                         *)
(*                                                                         *)
(* RouteSpec serves POST /register and POST /login through routeToUseCase  *)
(* with the response handler handleTokenResponse: the use case runs, and   *)
(* then either the response handler answers or, the use case having        *)
(* thrown, wrapAsync passes the error to ErrorHandler.handle.  Per         *)
(* invocation, tokens are the accessToken and refreshToken properties of   *)
(* the response body.                                                      *)
(***************************************************************************)

\* A body without accessToken and refreshToken.
NoTokens == [accessToken |-> <<>>, refreshToken |-> <<>>]

\* jwtService.generateTokenPair: two tokens signed over (userId, email).
generateTokenPair(userId, email) ==
  [accessToken |-> <<"access", userId, email>>,
   refreshToken |-> <<"refresh", userId, email>>]

\* A response that carries a token pair whatever the use case ended with.
RespondWithTokens(p, nodeEnv) ==
  /\ req[p].op \in {"register", "login"} /\ req[p].pc = "done"
  /\ req[p].response = NoResponse
  /\ req' = [req EXCEPT
               ![p].nodeEnv = nodeEnv,
               ![p].tokens = generateTokenPair(req[p].result.user.id, req[p].cmd.email),
               ![p].response =
                 Response(IF req[p].op = "register" THEN 201 ELSE 200,
                          "", NoCode, NoDetails, FALSE, <<>>)]
  /\ UNCHANGED <<users, auths, issued, prev, calls, enabled>>

\* routeToUseCase after `await useCase(...)`: responseHandler(result, req,
\* res) when the use case returned; when it threw, the error handler.
Respond(p, nodeEnv) ==
  /\ req[p].op \in {"register", "login"} /\ req[p].pc = "done"
  /\ req[p].response = NoResponse
  /\ IF req[p].result.kind = "ok"
       THEN req' = [req EXCEPT
                      ![p].nodeEnv = nodeEnv,
                      ![p].tokens = generateTokenPair(req[p].result.user.id,
                                                      req[p].result.user.email),
                      ![p].response =
                        Response(IF req[p].op = "register" THEN 201 ELSE 200,
                                 "", NoCode, NoDetails, FALSE, <<>>)]
       ELSE req' = [req EXCEPT
                      ![p].nodeEnv = nodeEnv,
                      ![p].thrown = Thrown(req[p].result),
                      ![p].response = handle(Thrown(req[p].result), nodeEnv)]
  /\ UNCHANGED <<users, auths, issued, prev, calls, enabled>>

\* The request before has been answered.
Answered(p) == req[p].pc = "idle" \/ req[p].response # NoResponse

RouteNext ==
  \E p \in Procs :
    \/ \E c \in RegisterCommands : Answered(p) /\ RegisterStart(p, c)
    \/ RegisterResume(p)
    \/ \E c \in LoginCommands : Answered(p) /\ LoginStart(p, c)
    \/ LoginFindUserWithAuthentication(p)
    \/ \E nodeEnv \in NodeEnvs : Respond(p, nodeEnv)

RouteSpec == Init /\ [][RouteNext]_vars

(***************************************************************************)
(* Properties                                                              *)
(***************************************************************************)

\* Handler p has finished an invocation of use case op.
Finished(p, op) == req[p].op = op /\ req[p].pc = "done"

\* The invocation of p before the current one was of use case op.
Previous(p, op) == prev[p].op = op /\ prev[p].pc = "done"

Raised(r) == r.kind \notin {"ok", "pending"}

\* The command rules of registration as the specification states them.
SatisfiesCommandRules(c) ==
  /\ c.email # Undefined /\ MatchesEmailRegex(c.email) /\ Len(c.email) <= MaxEmailLen
  /\ c.firstName # Undefined /\ ~TrimIsEmpty(c.firstName) /\ Len(c.firstName) <= MaxNameLen
  /\ c.lastName # Undefined /\ ~TrimIsEmpty(c.lastName) /\ Len(c.lastName) <= MaxNameLen
  /\ c.password # Undefined
  /\ Len(c.password) >= MinPasswordLen /\ Len(c.password) <= MaxPasswordLen
  /\ HasUpper(c.password) /\ HasLower(c.password) /\ HasDigit(c.password)

\* No stored user of table us has the email, ignoring letter case.
Unregistered(us, email) ==
  \A id \in DOMAIN us : us[id].email # ToLowerCase(email)

\* Rows the current invocation of p added for its command's email.
NewUsers(p) ==
  {id \in DOMAIN users \ DOMAIN req[p].preUsers :
     users[id].email = ToLowerCase(req[p].cmd.email)}

NewAuths(p) ==
  {k \in DOMAIN auths \ DOMAIN req[p].preAuths :
     /\ auths[k].provider = EmailProvider
     /\ auths[k].providerId = ToLowerCase(req[p].cmd.email)}

C2_DuplicateConflict ==
  \A p \in Procs :
    ( /\ Previous(p, "register") /\ Finished(p, "register")
      /\ SatisfiesCommandRules(prev[p].cmd)
      /\ Unregistered(prev[p].preUsers, prev[p].cmd.email)
      /\ ToLowerCase(req[p].cmd.email) = ToLowerCase(prev[p].cmd.email) )
    => /\ req[p].result.kind = "ConflictDomainError"
       /\ Cardinality({id \in DOMAIN users :
                         users[id].email = ToLowerCase(req[p].cmd.email)}) = 1

\* C3: every register command that satisfies the command rules and whose
\* email is not registered returns a success result whose user has
\* isActive = true and isAdmin = false.
C3_ValidRegisterSucceeds ==
  \A p \in Procs :
    ( /\ Finished(p, "register")
      /\ SatisfiesCommandRules(req[p].cmd)
      /\ Unregistered(req[p].preUsers, req[p].cmd.email) )
    => /\ req[p].result.kind = "ok"
       /\ req[p].result.user.isActive
       /\ ~req[p].result.user.isAdmin

\* A password string that breaks the password rule of the specification.
WeakPassword(pw) ==
  /\ pw # Undefined
  /\ \/ Len(pw) < MinPasswordLen \/ Len(pw) > MaxPasswordLen
     \/ ~HasUpper(pw) \/ ~HasLower(pw) \/ ~HasDigit(pw)

\* C4: every register command whose password lacks an upper-case letter, a
\* lower-case letter or a digit, or has a length outside [8,128], raises
\* ValidationDomainError with a field error for 'password', and no user row
\* is created.
C4_WeakPasswordRejected ==
  \A p \in Procs :
    (Finished(p, "register") /\ WeakPassword(req[p].cmd.password))
    => /\ req[p].result.kind = "ValidationDomainError"
       /\ "password" \in Fields(req[p].result.fieldErrors)
       /\ DOMAIN users = DOMAIN req[p].preUsers

\* C5: register then login round trip.  After a register call made with a
\* command that satisfies the rules and an unregistered email, a login with
\* the same email and password succeeds and returns the user id the
\* registration returned.
C5_RegisterLoginRoundTrip ==
  \A p \in Procs :
    ( /\ Previous(p, "register") /\ Finished(p, "login")
      /\ SatisfiesCommandRules(prev[p].cmd)
      /\ Unregistered(prev[p].preUsers, prev[p].cmd.email)
      /\ req[p].cmd.email = prev[p].cmd.email
      /\ req[p].cmd.password = prev[p].cmd.password )
    => /\ prev[p].result.kind = "ok"
       /\ req[p].result.kind = "ok"
       /\ req[p].result.message = "Login successful"
       /\ req[p].result.user.id = prev[p].result.user.id

\* C6: a failed login does not reveal its reason.  For a syntactically valid
\* command every failure (no user, inactive account, no hashed password,
\* password mismatch) raises AuthenticationDomainError with the message
\* 'Invalid email or password'.
C6_LoginFailureGeneric ==
  \A p \in Procs :
    ( /\ Finished(p, "login")
      /\ LoginValidateCommand(req[p].cmd) = <<>>
      /\ Raised(req[p].result) )
    => req[p].result = Raise("AuthenticationDomainError", "Invalid email or password")

\* A delete call of p whose caller resolved to a stored user and whose
\* command named a stored target when it began.
DeleteOfStoredTarget(p) ==
  /\ Finished(p, "delete")
  /\ req[p].ctx \in DOMAIN req[p].preUsers
  /\ DeleteValidateCommand(req[p].cmd) = <<>>
  /\ req[p].cmd.userId \in DOMAIN req[p].preUsers

\* C7: DeleteUser authorization matrix.  For a caller that resolves to a
\* stored user and a stored target, the call succeeds and removes the
\* target's row if and only if the caller is the target or an admin; in
\* every other case it raises AuthorizationDomainError('You do not have
\* permission to delete this user') and no user or authentication row has
\* changed.
C7_DeleteAuthorizationMatrix ==
  \A p \in Procs :
    DeleteOfStoredTarget(p) =>
      IF req[p].ctx = req[p].cmd.userId \/ req[p].preUsers[req[p].ctx].isAdmin
        THEN /\ req[p].result = Ok("User deleted successfully", NoDto)
             /\ req[p].cmd.userId \notin DOMAIN users
        ELSE /\ req[p].result = Raise("AuthorizationDomainError",
                                      "You do not have permission to delete this user")
             /\ users = req[p].preUsers
             /\ auths = req[p].preAuths

\* C7 witness: an admin has deleted another user.
C7_Witness ==
  \E p \in Procs :
    /\ DeleteOfStoredTarget(p)
    /\ req[p].ctx # req[p].cmd.userId
    /\ req[p].preUsers[req[p].ctx].isAdmin
    /\ req[p].result.kind = "ok"
    /\ req[p].cmd.userId \notin DOMAIN users

\* The current delete call of p repeats its previous, successful delete call
\* with the same context and command.
RepeatedDelete(p) ==
  /\ Previous(p, "delete") /\ prev[p].result.kind = "ok"
  /\ Finished(p, "delete")
  /\ req[p].ctx = prev[p].ctx
  /\ req[p].cmd = prev[p].cmd

\* A delete call of p with a resolvable caller, a well-formed command and a
\* target that was not stored when the call began.
DeleteOfMissingTarget(p) ==
  /\ Finished(p, "delete")
  /\ req[p].ctx \in DOMAIN req[p].preUsers
  /\ DeleteValidateCommand(req[p].cmd) = <<>>
  /\ req[p].cmd.userId \notin DOMAIN req[p].preUsers

\* C8 as stated: repeating a successful delete call with the same context
\* and command raises NotFoundDomainError, for an admin deleting another
\* user and for a user deleting their own account alike; and a delete of a
\* target that does not exist raises NotFoundDomainError.
C8_DeleteTwiceNotFound ==
  \A p \in Procs :
    /\ RepeatedDelete(p) => req[p].result.kind = "NotFoundDomainError"
    /\ DeleteOfMissingTarget(p) => req[p].result.kind = "NotFoundDomainError"

\* C8 amended: repeating a successful delete call raises
\* NotFoundDomainError('User not found') when the caller deleted another
\* user, and AuthenticationDomainError('Invalid user session') when the
\* caller deleted their own account (the caller no longer resolves); a
\* delete by a resolvable caller of a target that does not exist raises
\* NotFoundDomainError('User not found').
C8_DeleteTwiceAmended ==
  \A p \in Procs :
    /\ RepeatedDelete(p) =>
         req[p].result =
           IF req[p].ctx = req[p].cmd.userId
             THEN Raise("AuthenticationDomainError", "Invalid user session")
             ELSE Raise("NotFoundDomainError", "User not found")
    /\ DeleteOfMissingTarget(p) =>
         req[p].result = Raise("NotFoundDomainError", "User not found")

\* C8 witness: a user has deleted their own account and repeated the call.
C8_Witness ==
  \E p \in Procs : RepeatedDelete(p) /\ req[p].ctx = req[p].cmd.userId

\* C9: in every successful delete the target's authentication rows are
\* deleted before its user row: a step that removes a user row starts in a
\* state that holds no authentication row of that user, no state holds an
\* authentication row whose user is gone, and after the call
\* findAuthenticationByUserId(target) is empty and findById(target) is null.
C9_AuthenticationsDeletedFirst ==
  /\ [][\A id \in DOMAIN users \ DOMAIN users' :
          \A k \in DOMAIN auths : auths[k].userId # id]_vars
  /\ [](\A k \in DOMAIN auths : auths[k].userId \in DOMAIN users)
  /\ [](\A p \in Procs :
          (Finished(p, "delete") /\ req[p].result.kind = "ok") =>
             /\ findAuthenticationByUserId(req[p].cmd.userId) = {}
             /\ findById(req[p].cmd.userId) = NoId)

\* C9 witness: a user that had several authentication rows has been deleted.
C9_Witness ==
  \E p \in Procs :
    /\ Finished(p, "delete") /\ req[p].result.kind = "ok"
    /\ Cardinality({k \in DOMAIN req[p].preAuths :
                      req[p].preAuths[k].userId = req[p].cmd.userId}) >= 2
    /\ req[p].cmd.userId \notin DOMAIN users

\* C10: every private use case (GetUserProfile, DeleteUser, ListAllUsers)
\* invoked with a context without userId raises
\* AuthenticationDomainError('Authentication required'), whatever the
\* command or query.
C10_UnauthenticatedRejected ==
  \A p \in Procs :
    ( /\ req[p].op \in {"profile", "delete", "list"}
      /\ req[p].pc = "done"
      /\ req[p].ctx = NoId )
    => req[p].result = Raise("AuthenticationDomainError", "Authentication required")

\* A finished delete call of p with a well-formed command whose
\* context.userId matched no stored user when the call began.
DeleteByStaleCaller(p) ==
  /\ Finished(p, "delete")
  /\ req[p].ctx # NoId
  /\ req[p].ctx \notin DOMAIN req[p].preUsers
  /\ DeleteValidateCommand(req[p].cmd) = <<>>

\* C11: DeleteUser with a well-formed command and a context.userId that
\* matches no stored user raises AuthenticationDomainError('Invalid user
\* session'), whether or not the target exists, and leaves every user and
\* authentication row unchanged.
C11_StaleCallerRejected ==
  \A p \in Procs :
    DeleteByStaleCaller(p) =>
      /\ req[p].result = Raise("AuthenticationDomainError", "Invalid user session")
      /\ users = req[p].preUsers
      /\ auths = req[p].preAuths

\* C11 witness: a caller that no longer resolves has asked to delete a
\* stored user that owns authentication rows.
C11_Witness ==
  \E p \in Procs :
    /\ DeleteByStaleCaller(p)
    /\ req[p].cmd.userId \in DOMAIN users
    /\ findAuthenticationByUserId(req[p].cmd.userId) # {}

\* The caller of the list call of p resolved, when the call began, to a
\* stored user that is active and admin.
ListByActiveAdmin(p) ==
  /\ req[p].ctx \in DOMAIN req[p].preUsers
  /\ req[p].preUsers[req[p].ctx].isActive
  /\ req[p].preUsers[req[p].ctx].isAdmin

\* C12: ListAllUsers returns user data only to a caller that resolves to an
\* active admin; every other authenticated caller (non-admin, inactive
\* admin, or an id of no stored user) gets AuthorizationDomainError, with
\* the text 'admin privileges required' for an active non-admin, and the
\* repository list is not read for them.
C12_ListRequiresActiveAdmin ==
  \A p \in Procs :
    (req[p].op = "list" /\ req[p].ctx # NoId) =>
      /\ req[p].pc = "list" => ListByActiveAdmin(p)
      /\ (req[p].pc = "done" /\ req[p].result.kind = "ok") => ListByActiveAdmin(p)
      /\ (req[p].pc = "done" /\ ~ListByActiveAdmin(p)) =>
           /\ req[p].result.kind = "AuthorizationDomainError"
           /\ ( /\ req[p].ctx \in DOMAIN req[p].preUsers
                /\ req[p].preUsers[req[p].ctx].isActive
                /\ ~req[p].preUsers[req[p].ctx].isAdmin )
              => req[p].result.message = "Access denied - admin privileges required"

\* The list query of p asks for a page size above 500 or below 1, or for a
\* page below 1.
AsksOutOfRange(p) ==
  LET g == req[p].cmd.paging IN
  \/ g.pageSize # NoNum /\ (g.pageSize > MaxPageSize \/ g.pageSize < 1)
  \/ g.page # NoNum /\ g.page < 1

\* C13: for an active admin caller, every list request that asks for
\* pageSize > 500, pageSize < 1 or page < 1 raises ValidationDomainError and
\* does not read the repository list, whether the values arrive as raw
\* query parameters or as a pagination object built by the boundary.
C13_OutOfRangePageRejected ==
  \A p \in Procs :
    (req[p].op = "list" /\ ListByActiveAdmin(p) /\ AsksOutOfRange(p)) =>
      /\ req[p].pc # "list"
      /\ req[p].pc = "done" => req[p].result.kind = "ValidationDomainError"

\* Handler p has an answered page of users: from ListAllUsers or from
\* findMany itself.
AnsweredPage(p) ==
  /\ req[p].op \in {"list", "findMany"} /\ req[p].pc = "done"
  /\ req[p].result.kind = "ok"

\* C14: for every total >= 0, page >= 1 and pageSize in 1..500 the metadata
\* of an answered page has totalPages = ceil(total / pageSize) (the least k
\* with k * pageSize >= total), hasNext = (page < totalPages), hasPrev =
\* (page > 1), and the page holds min(pageSize, max(0, total - (page - 1) *
\* pageSize)) users; with 3 users and pageSize 1, page 1 has totalPages 3,
\* hasNext and no hasPrev, and page 3 has hasPrev and no hasNext.
C14_PaginationMetadata ==
  \A p \in Procs : AnsweredPage(p) =>
    LET total    == Cardinality(DOMAIN req[p].preUsers)
        page     == req[p].cmd.paging.page
        pageSize == req[p].cmd.paging.pageSize
        m        == req[p].result.meta
        rest     == total - (page - 1) * pageSize
    IN /\ page >= 1 /\ pageSize \in 1..MaxPageSize
       /\ m.total = total /\ m.page = page /\ m.pageSize = pageSize
       /\ m.totalPages * pageSize >= total
       /\ (m.totalPages - 1) * pageSize < total
       /\ m.hasNext = (page < m.totalPages)
       /\ m.hasPrev = (page > 1)
       /\ req[p].result.count =
            (IF rest < 0 THEN 0 ELSE IF rest < pageSize THEN rest ELSE pageSize)
       /\ (total = 3 /\ pageSize = 1 /\ page = 1) =>
            (m.totalPages = 3 /\ m.hasNext /\ ~m.hasPrev /\ req[p].result.count = 1)
       /\ (total = 3 /\ pageSize = 1 /\ page = 3) =>
            (m.totalPages = 3 /\ ~m.hasNext /\ m.hasPrev)

\* ListAllUsers has answered page 1 and then page 3 of three users at page
\* size 1.
C14_Witness ==
  \E p \in Procs :
    /\ Finished(p, "list") /\ AnsweredPage(p)
    /\ Cardinality(DOMAIN req[p].preUsers) = 3
    /\ req[p].cmd.paging.pageSize = 1 /\ req[p].cmd.paging.page = 3
    /\ Previous(p, "list") /\ prev[p].result.kind = "ok"
    /\ prev[p].cmd.paging.pageSize = 1 /\ prev[p].cmd.paging.page = 1
    /\ prev[p].result.meta.hasNext

\* Handler p runs or has run GetUserProfile for an identified caller with a
\* query that names a user.
ProfileAsked(p) ==
  /\ req[p].op = "profile" /\ req[p].ctx # NoId
  /\ ProfileValidateQuery(req[p].cmd) = <<>>

\* C15: GetUserProfile returns a profile only of the caller: when
\* context.userId differs from query.userId it raises
\* AuthorizationDomainError and never reaches the repository read; when they
\* are equal it raises NotFoundDomainError if the row is absent,
\* AuthorizationDomainError if the row is inactive, and otherwise returns
\* that user's DTO.
C15_ProfileOwnOnly ==
  \A p \in Procs : ProfileAsked(p) =>
    LET id   == req[p].cmd.userId
        rows == req[p].preUsers
    IN /\ req[p].ctx # id =>
            /\ req[p].pc = "done"
            /\ req[p].result.kind = "AuthorizationDomainError"
       /\ (req[p].ctx = id /\ req[p].pc = "done") =>
            IF id \notin DOMAIN rows
              THEN req[p].result.kind = "NotFoundDomainError"
              ELSE IF ~rows[id].isActive
                THEN req[p].result.kind = "AuthorizationDomainError"
                ELSE req[p].result = Ok("", UserDto(id, rows[id]))
       /\ (req[p].pc = "done" /\ req[p].result.kind = "ok") =>
            req[p].result.user.id = req[p].ctx

\* A handler was refused another user's stored profile and then got its own.
C15_Witness ==
  \E p \in Procs :
    /\ ProfileAsked(p) /\ req[p].pc = "done" /\ req[p].result.kind = "ok"
    /\ req[p].result.user.id = "u1"
    /\ Previous(p, "profile") /\ prev[p].ctx = "u1" /\ prev[p].cmd.userId = "u2"
    /\ "u2" \in DOMAIN prev[p].preUsers
    /\ prev[p].result.kind = "AuthorizationDomainError"

\* Handler p has sent an error response; and so had its previous request.
Responded(p) == req[p].op \in {"handle", "authenticate"} /\ req[p].thrown # NoError
RespondedBefore(p) == prev[p].op \in {"handle", "authenticate"} /\ prev[p].thrown # NoError

C17_ServerErrorOpaque ==
  \A p \in Procs : (Responded(p) /\ req[p].response.status = 500) =>
    /\ req[p].response.error = "Internal server error"
    /\ req[p].response.details = NoDetails
    /\ (RespondedBefore(p) /\ prev[p].response.status = 500
          /\ prev[p].nodeEnv = req[p].nodeEnv
          /\ [prev[p].thrown EXCEPT !.message = ""] = [req[p].thrown EXCEPT !.message = ""])
         => prev[p].response = req[p].response

\* C18: every error response has a code of the closed set VALIDATION,
\* AUTHENTICATION, AUTHORIZATION, NOT_FOUND, CONFLICT, SYSTEM (responses to
\* non-domain errors and to authentication-middleware failures included),
\* and carries fieldErrors exactly when the code is VALIDATION, equal to the
\* raised error's list of field errors.
C18_ErrorEnvelope ==
  \A p \in Procs :
    (Responded(p) /\ (req[p].op = "authenticate" \/ req[p].thrown \in ProgramErrors)) =>
      /\ req[p].response.code \in DomainErrorCodes
      /\ req[p].response.hasFieldErrors = (req[p].response.code = "VALIDATION")
      /\ req[p].response.hasFieldErrors =>
           req[p].response.fieldErrors = req[p].thrown.fieldErrors

\* C19: the transaction harness commits only after the callback has
\* finished normally, so never while the callback is still running, and
\* rolls back whenever the callback raises, at once or by a later
\* rejection: once the call is over, no write of a callback that raised is
\* in the store and the error has reached the caller.
C19_CommitAfterCallback ==
  \A p \in Procs : req[p].op = "transaction" =>
    /\ req[p].tx = "committed" => req[p].cb = "returned"
    /\ (req[p].pc = "done" /\ req[p].cb = "raised") =>
         /\ req[p].tx = "rolledBack"
         /\ users = req[p].preUsers
         /\ req[p].caller = "raised"

UseCaseOps == {"register", "login", "delete", "profile", "list"}

\* C20: every use-case invocation made by the boundary runs inside exactly
\* one open transaction scope and its repository calls use that scope: an
\* invocation has a scope, open while it runs, and what its repository
\* calls write is not committed on its own before the invocation is over.
C20_OneTransactionScope ==
  \A p \in Procs : req[p].op \in UseCaseOps =>
    /\ req[p].tx # "none"
    /\ req[p].pc # "done" =>
         /\ req[p].tx = "open"
         /\ users = req[p].preUsers /\ auths = req[p].preAuths

\* The transaction of call p is in flight: between connect and release.
InFlight(p) == req[p].op = "pooled" /\ req[p].pc \notin {"idle", "done"}

RacedFor(e) ==
  \A p \in Procs :
    /\ Finished(p, "register") /\ ToLowerCase(req[p].cmd.email) = e
    /\ \A id \in DOMAIN req[p].preUsers : req[p].preUsers[id].email # e

\* C22: of two concurrent RegisterUser calls with the same email, under
\* every interleaving, exactly one user row for that email persists, one
\* call succeeds, and the losing call ends with ConflictDomainError or
\* ValidationDomainError, never with a raw storage exception.
C22_ConcurrentRegister ==
  RacedFor(EmailA) =>
    /\ Cardinality({ id \in DOMAIN users : users[id].email = EmailA }) = 1
    /\ \E p \in Procs :
         /\ req[p].result.kind = "ok"
         /\ \A q \in Procs \ {p} :
              req[q].result.kind \in {"ConflictDomainError", "ValidationDomainError"}

FirstDeleteFailure(ctx, c, rows) ==
  IF ctx = NoId THEN "AuthenticationDomainError: Authentication required"
  ELSE IF DeleteValidateCommand(c) # <<>> THEN "ValidationDomainError"
  ELSE IF ctx \notin DOMAIN rows THEN "AuthenticationDomainError: Invalid user session"
  ELSE IF c.userId \notin DOMAIN rows THEN "NotFoundDomainError"
  ELSE IF ctx # c.userId /\ ~rows[ctx].isAdmin THEN "AuthorizationDomainError"
  ELSE "none"

\* C24: DeleteUser applies its checks in one fixed order, so that the
\* raised error is the first that applies of: missing context.userId
\* (AuthenticationDomainError), invalid command (ValidationDomainError),
\* unresolvable caller (AuthenticationDomainError 'Invalid user session'),
\* missing target (NotFoundDomainError), insufficient privilege
\* (AuthorizationDomainError); and no repository write happens before all
\* five checks have passed.
C24_DeleteCheckOrder ==
  \A p \in Procs : req[p].op = "delete" =>
    LET first == FirstDeleteFailure(req[p].ctx, req[p].cmd, req[p].preUsers)
        r     == req[p].result
    IN /\ first # "none" =>
            /\ users = req[p].preUsers /\ auths = req[p].preAuths
            /\ req[p].pc = "done" =>
                 CASE first = "AuthenticationDomainError: Authentication required" ->
                        r = Raise("AuthenticationDomainError", "Authentication required")
                   [] first = "ValidationDomainError" ->
                        r.kind = "ValidationDomainError"
                   [] first = "AuthenticationDomainError: Invalid user session" ->
                        r = Raise("AuthenticationDomainError", "Invalid user session")
                   [] first = "NotFoundDomainError" ->
                        r.kind = "NotFoundDomainError"
                   [] OTHER -> r.kind = "AuthorizationDomainError"
       /\ (users # req[p].preUsers \/ auths # req[p].preAuths) =>
            /\ first = "none"
            /\ req[p].pc \in {"deleteAuthentications", "done"}

\* A call without context.userId and with a malformed target id has been
\* answered, and then a call by a caller without row for a target without
\* row.
C24_Witness ==
  \E p \in Procs :
    /\ Finished(p, "delete") /\ req[p].ctx # NoId
    /\ req[p].ctx \notin DOMAIN req[p].preUsers
    /\ DeleteValidateCommand(req[p].cmd) = <<>>
    /\ req[p].cmd.userId \notin DOMAIN req[p].preUsers
    /\ Previous(p, "delete") /\ prev[p].ctx = NoId
    /\ DeleteValidateCommand(prev[p].cmd) # <<>>

\* The fields of a register command that violate a rule of validateCommand:
\* each of the four is required, and each has a bound on its length.
ViolatedRegisterFields(c) ==
  { f \in {"email", "firstName", "lastName"} :
      \/ Falsy(c[f]) \/ TrimIsEmpty(c[f])
      \/ Len(c[f]) > (IF f = "email" THEN MaxEmailLen ELSE MaxNameLen) }
  \cup
  { f \in {"password"} :
      \/ Falsy(c.password)
      \/ Len(c.password) < MinPasswordLen
      \/ Len(c.password) > MaxPasswordLen }

\* C25: RegisterUser command validation is total and accumulating.  For
\* every command object, including ones where a field is missing or empty,
\* validation passes or raises ValidationDomainError whose fieldErrors
\* has an entry for every field that violates a rule; it never ends with
\* an error of another kind.
C25_RegisterValidationTotal ==
  \A p \in Procs :
    (Finished(p, "register") /\ ViolatedRegisterFields(req[p].cmd) # {})
    => /\ req[p].result.kind = "ValidationDomainError"
       /\ req[p].result.message = "Invalid registration command"
       /\ ViolatedRegisterFields(req[p].cmd)
            \subseteq Fields(req[p].result.fieldErrors)

\* The provider passes the provider check of validate(): present, within
\* the length bound and one of the valid providers.
PassesProviderCheck(a) ==
  ~Falsy(a.provider) /\ Len(a.provider) <= MaxProviderLen
  /\ isValidProvider(a.provider)

\* The provider check counts the provider as the email provider.
ProviderCheckSaysEmail(a) == ToLowerCase(a.provider) = EmailProvider

\* C26: for every UserAuthentication whose provider passes the provider
\* check, validate() reports a 'hashedPassword' violation if and only if
\* the provider is the email provider and hashedPassword is absent or
\* trivially short, or the provider is not the email provider and
\* hashedPassword is non-null; the provider check and the hashedPassword
\* rule agree on which providers are the email provider.
C26_HashedPasswordRule ==
  \A p \in Procs :
    (Finished(p, "validate") /\ PassesProviderCheck(req[p].entity))
    => LET a == req[p].entity
       IN ("hashedPassword" \in Fields(req[p].result.fieldErrors))
          <=> \/ /\ ProviderCheckSaysEmail(a)
                 /\ (a.hashedPassword = NullHash \/ a.hashedPassword.len < MinHashLen)
              \/ /\ ~ProviderCheckSaysEmail(a)
                 /\ a.hashedPassword # NullHash

\* Handler q has made no call, or one call, which ended with an error.
OnlyFailedCalls(q) ==
  /\ prev[q].op = "none"
  /\ req[q].op = "none" \/ (req[q].pc = "done" /\ Raised(req[q].result))

\* C27: a DeleteUser call that ends with any error, a failure of
\* deleteAuthentication or of the final user delete after some
\* authentication rows were deleted included, leaves the User rows and the
\* UserAuthentication rows as they were before the call.  Stated for the
\* runs in which no call has succeeded or is under way, so that no change
\* of the store is the work of a successful call.
C27_FailedDeleteLeavesStore ==
  \A p \in Procs :
    ( /\ Finished(p, "delete") /\ Raised(req[p].result)
      /\ \A q \in Procs : OnlyFailedCalls(q) )
    => users = req[p].preUsers /\ auths = req[p].preAuths

ReadOnlyUseCases == {"login", "profile", "list"}

\* C28: LoginUser, GetUserProfile and ListAllUsers never change persisted
\* state.  For every context and input, and whether the call succeeds or
\* raises, the User rows and the UserAuthentication rows during and after
\* the call are those before it (the next call starts from the store this
\* one started from).
C28_ReadOnlyUseCases ==
  \A p \in Procs :
    /\ req[p].op \in ReadOnlyUseCases
         => users = req[p].preUsers /\ auths = req[p].preAuths
    /\ (prev[p].op \in ReadOnlyUseCases /\ req[p].op # "none")
         => req[p].preUsers = prev[p].preUsers /\ req[p].preAuths = prev[p].preAuths

\* A login has failed for the password of an account that is stored, after
\* a listing that succeeded.
C28_Witness ==
  \E p \in Procs :
    /\ Finished(p, "login") /\ Raised(req[p].result)
    /\ findByEmail(req[p].cmd.email) # NoId
    /\ Previous(p, "list") /\ prev[p].result.kind = "ok"

\* The 'email' authentication rows of user id.
EmailCredentials(id) ==
  {k \in DOMAIN auths : auths[k].userId = id /\ auths[k].provider = EmailProvider}

C30_TokensOnlyAfterSuccess ==
  \A p \in Procs :
    /\ req[p].tokens # NoTokens
         => /\ req[p].pc = "done" /\ req[p].result.kind = "ok"
            /\ req[p].tokens = generateTokenPair(req[p].result.user.id,
                                                 req[p].result.user.email)
    /\ (req[p].response # NoResponse /\ Raised(req[p].result))
         => /\ req[p].tokens = NoTokens
            /\ req[p].response.status >= 400

\* A login has been answered with a token pair, after a registration that
\* was answered with an error.
C30_Witness ==
  \E p \in Procs :
    /\ Finished(p, "login") /\ req[p].tokens # NoTokens
    /\ req[p].response.status = 200
    /\ Previous(p, "register") /\ Raised(prev[p].result)
    /\ prev[p].response # NoResponse /\ prev[p].tokens = NoTokens
====
